---- MODULE Spec2Model ----
(***************************************************************************)
(* Session simulation engine of the fashion supply-chain game: the         *)
(* contract countdown, the per-round economics, demand generation and the  *)
(* negotiation state machine, as implemented by backend/simulation/core.py *)
(* and the handlers of backend/app/routes.                                 *)
(*                                                                         *)
(* Numbers.  Python floats are modelled as fixed-point integers:           *)
(*   prices and JSON lengths  in tenths      (17.0  -> 170, 0.5 -> 5)      *)
(*   cap values and shares    in hundredths  (0.3   -> 30,  1.0 -> 100)    *)
(*   money                    in thousandths (price * quantity * 100)      *)
(* Contract lengths, rounds, quantities and demands are plain integers.    *)
(* Python's None is NoContract for an optional contract, NoTime for an     *)
(* optional timestamp and the string "None" for an optional string.        *)
(***************************************************************************)
EXTENDS Integers, Sequences, FiniteSets, TLC

VARIABLES SESSIONS, DEFAULT_PARAMS, DEFAULT_HISTORY, game_DEFAULT_HISTORY,
          ai_provider, clock, last,
          orders_on_contract, proposed_type, round_result, evaluation,
          in_flight

vars == <<SESSIONS, DEFAULT_PARAMS, DEFAULT_HISTORY, game_DEFAULT_HISTORY,
          ai_provider, clock, last,
          orders_on_contract, proposed_type, round_result, evaluation,
          in_flight>>

(***************************************************************************)
(* Bounds of the model.                                                    *)
(***************************************************************************)
\* largest total_rounds a game is started with
MaxRounds == 2
\* datetime.now() is read at most this many times in a behaviour
MaxClock == 2
\* longest open transcript kept
MaxTranscript == 3
\* negotiation records kept per session
MaxRecords == 2

(***************************************************************************)
(* Helpers for Python arithmetic.                                          *)
(***************************************************************************)
Min(a, b) == IF a <= b THEN a ELSE b

Max(a, b) == IF a >= b THEN a ELSE b

\* int(n / d) for d > 0: Python's int() truncates toward zero
TruncDiv(n, d) == IF n >= 0 THEN n \div d ELSE -((-n) \div d)

NoContract == [none |-> TRUE]

NoTime == 0

(***************************************************************************)
(* Contract (dataclass): remaining_rounds defaults to length.              *)
(***************************************************************************)
Contract(w, b, capType, capValue, len, ctype, share) ==
    [wholesale_price |-> w, buyback_price |-> b, cap_type |-> capType,
     cap_value |-> capValue, length |-> len, remaining_rounds |-> len,
     contract_type |-> ctype, revenue_share |-> share]

\* to_contract_data copies every field of the contract into a fresh value
to_contract_data(contract) ==
    [wholesale_price |-> contract.wholesale_price,
     buyback_price |-> contract.buyback_price,
     cap_type |-> contract.cap_type,
     cap_value |-> contract.cap_value,
     length |-> contract.length,
     remaining_rounds |-> contract.remaining_rounds,
     contract_type |-> contract.contract_type,
     revenue_share |-> contract.revenue_share]

(***************************************************************************)
(* Economic parameters (tenths) and the seed demand history; both are      *)
(* process-wide and replaced by reload_defaults.                           *)
(***************************************************************************)
EconomicParams ==
    [retail_price |-> 500, buyer_salvage_value |-> 30,
     return_shipping_buyer |-> 10, supplier_cost |-> 120,
     supplier_salvage_value |-> 120, return_handling_supplier |-> 5]

\* a second config/economic_params.json the instructor may install
AltEconomicParams ==
    [retail_price |-> 400, buyer_salvage_value |-> 20,
     return_shipping_buyer |-> 20, supplier_cost |-> 150,
     supplier_salvage_value |-> 100, return_handling_supplier |-> 10]

(***************************************************************************)
(* Negotiation configuration: the default of load_negotiation_config.      *)
(***************************************************************************)
DEFAULT_NEGOTIATION_CONFIG ==
    [contract_types_available |-> {"buyback", "revenue_sharing", "hybrid"},
     length_min |-> 1, length_max |-> 10,
     cap_type_allowed |-> "fraction",
     cap_value_min |-> 0, cap_value_max |-> 50,
     revenue_share_min |-> 0, revenue_share_max |-> 100]

load_negotiation_config == DEFAULT_NEGOTIATION_CONFIG

(***************************************************************************)
(* The external provider, as a black box.  One reply to the evaluation     *)
(* prompt is an exception, an empty completion, or a text; of a text only  *)
(* what the two regular expressions of evaluate_proposal_with_ai read is   *)
(* kept: the word after "DECISION:" and the line after "MESSAGE:".         *)
(***************************************************************************)
EvalReplies ==
    { [kind |-> "raise", decision |-> "", message |-> ""],
      [kind |-> "empty", decision |-> "", message |-> ""],
      [kind |-> "text", decision |-> "accept", message |-> "Deal."],
      [kind |-> "text", decision |-> "REJECT", message |-> "**Too low.**"],
      [kind |-> "text", decision |-> "counter", message |-> "How about more?"],
      [kind |-> "text", decision |-> "accept", message |-> ""] }

\* str.lower() on the words the replies use
Lower(word) ==
    CASE word = "REJECT" -> "reject"
      [] word = "ACCEPT" -> "accept"
      [] OTHER -> word

\* clean_ai_response: markdown markers are stripped; a message that is empty
\* after cleaning becomes the friendly default
clean_ai_response(message) ==
    CASE message = "**Too low.**" -> "Too low."
      [] message = "**" -> "Great! Let's proceed with these terms."
      [] message = "" -> "Great! Let's proceed with these terms."
      [] OTHER -> message

(***************************************************************************)
(* evaluate_proposal_simple_logic: the fallback evaluation.                *)
(***************************************************************************)
\* variant: any wholesale price that covers the minimum is accepted
evaluate_proposal_simple_logic_lenient(proposed, params) ==
    LET min_wholesale == params.supplier_cost + 10
        max_buyback == proposed.wholesale_price - 10
    IN  IF proposed.wholesale_price < min_wholesale
        THEN [decision |-> "reject",
              message |-> "The wholesale price is too low for me to operate profitably.",
              counter_contract |-> NoContract]
        ELSE IF proposed.buyback_price > max_buyback
        THEN [decision |-> "reject",
              message |-> "The buyback price is too high relative to the wholesale price.",
              counter_contract |-> NoContract]
        ELSE [decision |-> "accept",
              message |-> "These terms are acceptable to me. The contract is now active.",
              counter_contract |-> NoContract]

evaluate_proposal_simple_logic(proposed, params) ==
    LET min_wholesale == params.supplier_cost + 10
        acceptable_wholesale == min_wholesale + 40
        max_buyback == proposed.wholesale_price - 10
    IN  IF proposed.wholesale_price < min_wholesale
        THEN [decision |-> "reject",
              message |-> "The wholesale price is too low for me to operate profitably.",
              counter_contract |-> NoContract]
        ELSE IF proposed.buyback_price > max_buyback
        THEN [decision |-> "reject",
              message |-> "The buyback price is too high relative to the wholesale price.",
              counter_contract |-> NoContract]
        ELSE IF proposed.wholesale_price < acceptable_wholesale
        THEN [decision |-> "reject",
              message |-> "The wholesale price is too low given the demand risk.",
              counter_contract |-> NoContract]
        ELSE [decision |-> "accept",
              message |-> "These terms are acceptable to me. The contract is now active.",
              counter_contract |-> NoContract]

\* variant of evaluate_proposal_with_ai: an exception of the provider is
\* reported as the outcome
evaluate_proposal_with_ai_surfacing(proposed, params, provider, reply) ==
    IF provider \notin {"openai", "deepseek"}
    THEN evaluate_proposal_simple_logic(proposed, params)
    ELSE IF reply.kind = "raise"
    THEN [decision |-> "error",
          message |-> "AI evaluation error",
          counter_contract |-> NoContract]
    ELSE IF reply.kind = "empty"
    THEN evaluate_proposal_simple_logic(proposed, params)
    ELSE IF Lower(reply.decision) \in {"accept", "reject"} /\ reply.message # ""
    THEN [decision |-> Lower(reply.decision),
          message |-> clean_ai_response(reply.message),
          counter_contract |-> NoContract]
    ELSE evaluate_proposal_simple_logic(proposed, params)

\* variant of evaluate_proposal_with_ai: the decision pattern also matches
\* "counter"
evaluate_proposal_with_ai_counter(proposed, params, provider, reply) ==
    IF provider \notin {"openai", "deepseek"}
    THEN evaluate_proposal_simple_logic(proposed, params)
    ELSE IF reply.kind = "raise"
    THEN evaluate_proposal_simple_logic(proposed, params)
    ELSE IF reply.kind = "empty"
    THEN evaluate_proposal_simple_logic(proposed, params)
    ELSE IF Lower(reply.decision) \in {"accept", "reject", "counter"}
            /\ reply.message # ""
    THEN [decision |-> Lower(reply.decision),
          message |-> clean_ai_response(reply.message),
          counter_contract |-> NoContract]
    ELSE evaluate_proposal_simple_logic(proposed, params)

(***************************************************************************)
(* evaluate_proposal_with_ai: the provider's reply if one is configured,   *)
(* answers and is parseable; the fallback in every other case.             *)
(***************************************************************************)
evaluate_proposal_with_ai(proposed, params, provider, reply) ==
    IF provider \notin {"openai", "deepseek"}
    THEN evaluate_proposal_simple_logic(proposed, params)
    ELSE IF reply.kind = "raise"
    THEN evaluate_proposal_simple_logic(proposed, params)
    ELSE IF reply.kind = "empty"
    THEN evaluate_proposal_simple_logic(proposed, params)
    ELSE IF Lower(reply.decision) \in {"accept", "reject"} /\ reply.message # ""
    THEN [decision |-> Lower(reply.decision),
          message |-> clean_ai_response(reply.message),
          counter_contract |-> NoContract]
    ELSE evaluate_proposal_simple_logic(proposed, params)

\* variant of supplier_evaluate_contract: a buyback price equal to the
\* wholesale price passes the structural check
supplier_evaluate_contract_strict(proposed, params, provider, reply) ==
    IF proposed.buyback_price > proposed.wholesale_price
    THEN [decision |-> "reject",
          message |-> "I cannot accept a buyback price that is greater than or equal to the wholesale price.",
          counter_contract |-> NoContract]
    ELSE evaluate_proposal_with_ai(proposed, params, provider, reply)

(***************************************************************************)
(* supplier_evaluate_contract: structural check first, then the provider.  *)
(***************************************************************************)
supplier_evaluate_contract(proposed, params, provider, reply) ==
    IF proposed.buyback_price >= proposed.wholesale_price
    THEN [decision |-> "reject",
          message |-> "I cannot accept a buyback price that is greater than or equal to the wholesale price.",
          counter_contract |-> NoContract]
    ELSE evaluate_proposal_with_ai(proposed, params, provider, reply)

(***************************************************************************)
(* GameState predicates of game_service.                                   *)
(***************************************************************************)
\* variant: ended_early is not looked at
is_game_over_by_rounds(state) == state.round_number > state.total_rounds

is_game_over(state) ==
    state.round_number > state.total_rounds \/ state.ended_early

\* variant: the last round of a contract does not count as active
has_active_contract_beyond_last(state) == state.contract.remaining_rounds > 1

has_active_contract(state) == state.contract.remaining_rounds > 0

(***************************************************************************)
(* generate_demand: the set of values one call may return.  "normal" may   *)
(* return any integer >= 0; NormalDraws are the draws the model tries.     *)
(* An unknown method, or an empty history, raises: no value is returned.   *)
(***************************************************************************)
NormalDraws == {0, 3}

\* variant: a bootstrap draw is perturbed by one unit
generate_demand_perturbed(historical_demands, method) ==
    IF method = "bootstrap"
    THEN {historical_demands[i] + 1 : i \in 1..Len(historical_demands)}
    ELSE IF method = "normal"
    THEN (IF Len(historical_demands) = 0 THEN {} ELSE NormalDraws)
    ELSE {}

generate_demand(historical_demands, method) ==
    IF method = "bootstrap"
    THEN {historical_demands[i] : i \in 1..Len(historical_demands)}
    ELSE IF method = "normal"
    THEN (IF Len(historical_demands) = 0 THEN {} ELSE NormalDraws)
    ELSE {}

(***************************************************************************)
(* simulate_round: the economics of one round under a contract, and the    *)
(* decrement of the contract's remaining_rounds.  The result is the        *)
(* RoundOutput and the contract as the call leaves it.                     *)
(***************************************************************************)
\* price (tenths) times quantity, in thousandths
Money(price, quantity) == price * quantity * 100

\* share (hundredths) of an amount in thousandths that is a multiple of 100
ShareOf(share, amount) == share * (amount \div 100)

\* the return cap of a buyback or hybrid contract, int(cap)
ReturnCap(contract, Q) ==
    IF contract.cap_type = "fraction"
    THEN TruncDiv(contract.cap_value * Q, 100)
    ELSE TruncDiv(contract.cap_value, 100)

\* variant: the distance between order and demand
UnsoldUnitsEitherWay(Q, D) == IF Q >= D THEN Q - D ELSE D - Q

\* line 495: the units ordered beyond demand
UnsoldUnits(Q, D) == Max(Q - D, 0)

\* variant: only a buyback contract takes units back
AllowsReturnsBuybackOnly(ct) == ct = "buyback"

\* lines 520, 592: the contract types under which unsold units are returned
AllowsReturns(ct) == ct \in {"buyback", "hybrid"}

\* variant: the revenue-share payment is computed under every contract type
AllowsShareAlways(ct) == TRUE

\* lines 561, 592: the contract types under which retail revenue is shared
AllowsShare(ct) == ct \in {"revenue_sharing", "hybrid"}

\* variant: the share is only kept from exceeding 1
ClampShareAbove(revenue_share) == Min(revenue_share, 100)

\* lines 566, 603: the revenue share (hundredths) clamped to [0, 1]
ClampShare(revenue_share) == Max(0, Min(revenue_share, 100))

\* variant: the round is not counted against the contract
advance_round_forgotten(contract) == contract

\* lines 679-680: one round of the contract is used up
advance_round(contract) == [contract EXCEPT !.remaining_rounds = @ - 1]

\* variant: the supplier books the returned units at the wholesale price
BuybackCostSupplierAtWholesale(contract, returns) ==
    Money(contract.wholesale_price, returns)

\* lines 550, 627: what the supplier pays for the returned units
BuybackCostSupplier(contract, returns) ==
    Money(contract.buyback_price, returns)

simulate_round(contract, round_input, params) ==
    LET Q == round_input.order_quantity
        D == round_input.realized_demand
        sales == Min(Q, D)
        unsold == UnsoldUnits(Q, D)
        ct == IF contract.contract_type = "" THEN "buyback" ELSE contract.contract_type
        withReturns == AllowsReturns(ct)
        withShare == AllowsShare(ct)
        returns == IF withReturns THEN Min(unsold, ReturnCap(contract, Q)) ELSE 0
        leftovers == IF withReturns THEN unsold - returns ELSE unsold
        share == ClampShare(contract.revenue_share)
        retail_revenue == Money(params.retail_price, sales)
        salvage_revenue_buyer == Money(params.buyer_salvage_value, leftovers)
        buyback_refund_buyer ==
            IF withReturns THEN Money(contract.buyback_price, returns) ELSE 0
        wholesale_cost_buyer == Money(contract.wholesale_price, Q)
        return_shipping_cost_buyer ==
            IF withReturns THEN Money(params.return_shipping_buyer, returns) ELSE 0
        revenue_share_payment_buyer ==
            IF withShare THEN ShareOf(share, retail_revenue) ELSE 0
        wholesale_revenue_supplier == Money(contract.wholesale_price, Q)
        salvage_revenue_supplier ==
            IF withReturns THEN Money(params.supplier_salvage_value, returns) ELSE 0
        production_cost_supplier == Money(params.supplier_cost, Q)
        buyback_cost_supplier ==
            IF withReturns THEN BuybackCostSupplier(contract, returns) ELSE 0
        return_handling_cost_supplier ==
            IF withReturns THEN Money(params.return_handling_supplier, returns) ELSE 0
        revenue_share_revenue_supplier ==
            IF withShare THEN ShareOf(share, retail_revenue) ELSE 0
        buyer_profit ==
            CASE ct = "buyback" ->
                   retail_revenue + salvage_revenue_buyer + buyback_refund_buyer
                   - wholesale_cost_buyer - return_shipping_cost_buyer
              [] ct = "revenue_sharing" ->
                   retail_revenue - revenue_share_payment_buyer
                   + salvage_revenue_buyer - wholesale_cost_buyer
              [] ct = "hybrid" ->
                   retail_revenue - revenue_share_payment_buyer
                   + salvage_revenue_buyer + buyback_refund_buyer
                   - wholesale_cost_buyer - return_shipping_cost_buyer
              [] OTHER ->
                   retail_revenue + salvage_revenue_buyer - wholesale_cost_buyer
        supplier_profit ==
            CASE ct = "buyback" ->
                   wholesale_revenue_supplier + salvage_revenue_supplier
                   - production_cost_supplier - buyback_cost_supplier
                   - return_handling_cost_supplier
              [] ct = "revenue_sharing" ->
                   wholesale_revenue_supplier + revenue_share_revenue_supplier
                   - production_cost_supplier
              [] ct = "hybrid" ->
                   wholesale_revenue_supplier + revenue_share_revenue_supplier
                   + salvage_revenue_supplier - production_cost_supplier
                   - buyback_cost_supplier - return_handling_cost_supplier
              [] OTHER ->
                   wholesale_revenue_supplier - production_cost_supplier
    IN  [contract |-> advance_round(contract),
         output |->
           [order_quantity |-> Q,
            realized_demand |-> D,
            sales |-> sales,
            unsold |-> unsold,
            returns |-> returns,
            leftovers |-> leftovers,
            buyer_revenue |->
                retail_revenue + salvage_revenue_buyer + buyback_refund_buyer,
            buyer_cost |->
                wholesale_cost_buyer + return_shipping_cost_buyer
                + revenue_share_payment_buyer,
            buyer_profit |-> buyer_profit,
            supplier_revenue |->
                wholesale_revenue_supplier + salvage_revenue_supplier
                + revenue_share_revenue_supplier,
            supplier_cost |->
                production_cost_supplier + buyback_cost_supplier
                + return_handling_cost_supplier,
            supplier_profit |-> supplier_profit,
            retail_revenue |-> retail_revenue,
            salvage_revenue_buyer |-> salvage_revenue_buyer,
            buyback_refund_buyer |-> buyback_refund_buyer,
            wholesale_cost_buyer |-> wholesale_cost_buyer,
            return_shipping_cost_buyer |-> return_shipping_cost_buyer,
            revenue_share_payment_buyer |-> revenue_share_payment_buyer,
            wholesale_revenue_supplier |-> wholesale_revenue_supplier,
            salvage_revenue_supplier |-> salvage_revenue_supplier,
            production_cost_supplier |-> production_cost_supplier,
            buyback_cost_supplier |-> buyback_cost_supplier,
            return_handling_cost_supplier |-> return_handling_cost_supplier,
            revenue_share_revenue_supplier |-> revenue_share_revenue_supplier]]

(***************************************************************************)
(* simulate_game_round: one round of a session with realized demand D      *)
(* (drawn by the caller from generate_demand).                             *)
(***************************************************************************)
\* variant: remaining_rounds is recorded as it was before the round
RoundSummaryBeforeCountdown(state, order_quantity, D, round_output, contract) ==
    [round_index |-> state.round_number,
     order_quantity |-> order_quantity,
     realized_demand |-> D,
     buyer_revenue |-> round_output.buyer_revenue,
     buyer_cost |-> round_output.buyer_cost,
     buyer_profit |-> round_output.buyer_profit,
     supplier_revenue |-> round_output.supplier_revenue,
     supplier_cost |-> round_output.supplier_cost,
     supplier_profit |-> round_output.supplier_profit,
     wholesale_price |-> contract.wholesale_price,
     buyback_price |-> contract.buyback_price,
     cap_type |-> contract.cap_type,
     cap_value |-> contract.cap_value,
     contract_length |-> contract.length,
     remaining_rounds |-> state.contract.remaining_rounds,
     contract_type |-> contract.contract_type,
     revenue_share |-> contract.revenue_share]

RoundSummary(state, order_quantity, D, round_output, contract) ==
    [round_index |-> state.round_number,
     order_quantity |-> order_quantity,
     realized_demand |-> D,
     buyer_revenue |-> round_output.buyer_revenue,
     buyer_cost |-> round_output.buyer_cost,
     buyer_profit |-> round_output.buyer_profit,
     supplier_revenue |-> round_output.supplier_revenue,
     supplier_cost |-> round_output.supplier_cost,
     supplier_profit |-> round_output.supplier_profit,
     wholesale_price |-> contract.wholesale_price,
     buyback_price |-> contract.buyback_price,
     cap_type |-> contract.cap_type,
     cap_value |-> contract.cap_value,
     contract_length |-> contract.length,
     remaining_rounds |-> contract.remaining_rounds,
     contract_type |-> contract.contract_type,
     revenue_share |-> contract.revenue_share]

\* variant: the round number is written into the summary after the increment
simulate_game_round_late_index(state, order_quantity, D, params) ==
    LET sim == simulate_round(state.contract,
                              [order_quantity |-> order_quantity,
                               realized_demand |-> D], params)
        round_output == sim.output
        next == [state EXCEPT !.round_number = @ + 1]
    IN  [round_output |-> round_output,
         state |->
           [next EXCEPT
              !.historical_demands = Append(@, D),
              !.contract = sim.contract,
              !.cumulative_buyer_profit = @ + round_output.buyer_profit,
              !.cumulative_supplier_profit = @ + round_output.supplier_profit,
              !.total_demand = @ + D,
              !.total_sales = @ + round_output.sales,
              !.total_returns = @ + round_output.returns,
              !.total_leftovers = @ + round_output.leftovers,
              !.round_summaries =
                  Append(@, RoundSummary(next, order_quantity, D,
                                         round_output, sim.contract))]]

\* variant: the round counter is not advanced
simulate_game_round_same_round(state, order_quantity, D, params) ==
    LET sim == simulate_round(state.contract,
                              [order_quantity |-> order_quantity,
                               realized_demand |-> D], params)
        round_output == sim.output
    IN  [round_output |-> round_output,
         state |->
           [state EXCEPT
              !.historical_demands = Append(@, D),
              !.contract = sim.contract,
              !.cumulative_buyer_profit = @ + round_output.buyer_profit,
              !.cumulative_supplier_profit = @ + round_output.supplier_profit,
              !.total_demand = @ + D,
              !.total_sales = @ + round_output.sales,
              !.total_returns = @ + round_output.returns,
              !.total_leftovers = @ + round_output.leftovers,
              !.round_summaries =
                  Append(@, RoundSummary(state, order_quantity, D,
                                         round_output, sim.contract))]]

simulate_game_round(state, order_quantity, D, params) ==
    LET sim == simulate_round(state.contract,
                              [order_quantity |-> order_quantity,
                               realized_demand |-> D], params)
        round_output == sim.output
    IN  [round_output |-> round_output,
         state |->
           [state EXCEPT
              !.historical_demands = Append(@, D),
              !.contract = sim.contract,
              !.cumulative_buyer_profit = @ + round_output.buyer_profit,
              !.cumulative_supplier_profit = @ + round_output.supplier_profit,
              !.total_demand = @ + D,
              !.total_sales = @ + round_output.sales,
              !.total_returns = @ + round_output.returns,
              !.total_leftovers = @ + round_output.leftovers,
              !.round_summaries =
                  Append(@, RoundSummary(state, order_quantity, D,
                                         round_output, sim.contract)),
              !.round_number = @ + 1]]

(***************************************************************************)
(* Responses.  Every handler returns the session as it leaves it (state),  *)
(* what the caller sees (resp) and how many times it read datetime.now()   *)
(* (ticks: 0 or 1; the reads of one call are taken to return one instant). *)
(* resp.err is "none" or names the HTTPException raised.                   *)
(***************************************************************************)
NoOutput == [none |-> TRUE]

Response(op, err, request) ==
    [op |-> op, err |-> err, request |-> request, decision |-> "",
     message |-> "", contract |-> NoContract, round_output |-> NoOutput]

Failure(state, op, err, request) ==
    [state |-> state, resp |-> Response(op, err, request), ticks |-> 0]

(***************************************************************************)
(* start_game: the GameState of a new session.                             *)
(***************************************************************************)
\* variant: the placeholder contract has one round to run
GameStateContracted(rounds, demand_method, history) ==
    [round_number |-> 1,
     total_rounds |-> rounds,
     contract |-> Contract(0, 0, "fraction", 0, 1, "buyback", 0),
     cumulative_buyer_profit |-> 0,
     cumulative_supplier_profit |-> 0,
     historical_demands |-> history,
     method |-> demand_method,
     total_demand |-> 0,
     total_sales |-> 0,
     total_returns |-> 0,
     total_leftovers |-> 0,
     round_summaries |-> << >>,
     negotiation_chat_history |-> << >>,
     negotiation_draft_contract |-> NoContract,
     initial_contract_type |-> "None",
     negotiation_history |-> << >>,
     ended_early |-> FALSE,
     current_negotiation_start_time |-> NoTime]

GameState(rounds, demand_method, history) ==
    [round_number |-> 1,
     total_rounds |-> rounds,
     contract |-> Contract(0, 0, "fraction", 0, 0, "buyback", 0),
     cumulative_buyer_profit |-> 0,
     cumulative_supplier_profit |-> 0,
     historical_demands |-> history,
     method |-> demand_method,
     total_demand |-> 0,
     total_sales |-> 0,
     total_returns |-> 0,
     total_leftovers |-> 0,
     round_summaries |-> << >>,
     negotiation_chat_history |-> << >>,
     negotiation_draft_contract |-> NoContract,
     initial_contract_type |-> "None",
     negotiation_history |-> << >>,
     ended_early |-> FALSE,
     current_negotiation_start_time |-> NoTime]

\* a negotiation is open when the transcript is non-empty or a draft exists
NegotiationOpen(state) ==
    state.negotiation_chat_history # << >>
    \/ state.negotiation_draft_contract # NoContract

(***************************************************************************)
(* place_order: game-over check, contract check, then the round.           *)
(***************************************************************************)
\* variant: the contract check comes before the game-over check
place_order_contract_first(state, order_quantity, D, params) ==
    IF state.contract.remaining_rounds <= 0
    THEN Failure(state, "place_order", "no_active_contract", order_quantity)
    ELSE IF is_game_over(state)
    THEN Failure(state, "place_order", "game_over", order_quantity)
    ELSE LET r == simulate_game_round(state, order_quantity, D, params)
         IN  [state |-> r.state,
              resp |-> [Response("place_order", "none", order_quantity)
                          EXCEPT !.round_output = r.round_output],
              ticks |-> 0]

place_order(state, order_quantity, D, params) ==
    IF is_game_over(state)
    THEN Failure(state, "place_order", "game_over", order_quantity)
    ELSE IF state.contract.remaining_rounds <= 0
    THEN Failure(state, "place_order", "no_active_contract", order_quantity)
    ELSE LET r == simulate_game_round(state, order_quantity, D, params)
         IN  [state |-> r.state,
              resp |-> [Response("place_order", "none", order_quantity)
                          EXCEPT !.round_output = r.round_output],
              ticks |-> 0]

(***************************************************************************)
(* negotiate: the initial proposal.                                        *)
(***************************************************************************)
\* the first negotiation-config rule the request violates, or "none"
ProposalViolation(request, neg_config) ==
    IF request.contract_type \notin neg_config.contract_types_available
    THEN "contract_type_not_available"
    ELSE IF request.length < neg_config.length_min
            \/ request.length > neg_config.length_max
    THEN "length_out_of_range"
    ELSE IF neg_config.cap_type_allowed = "fraction" /\ request.cap_type # "fraction"
    THEN "cap_type_not_allowed"
    ELSE IF neg_config.cap_type_allowed = "unit" /\ request.cap_type # "unit"
    THEN "cap_type_not_allowed"
    ELSE IF request.cap_value < neg_config.cap_value_min
            \/ request.cap_value > neg_config.cap_value_max
    THEN "cap_value_out_of_range"
    ELSE IF request.contract_type \in {"revenue_sharing", "hybrid"}
            /\ (request.revenue_share < neg_config.revenue_share_min
                \/ request.revenue_share > neg_config.revenue_share_max)
    THEN "revenue_share_out_of_range"
    ELSE "none"

\* variant: an unresolved negotiation is dropped without a record
OpenNewNegotiationForgetting(state, now) ==
    [state EXCEPT
       !.negotiation_chat_history = << >>,
       !.negotiation_draft_contract = NoContract,
       !.current_negotiation_start_time = now]

\* lines 81-101: an unresolved negotiation is closed as abandoned, then the
\* open-negotiation state is reset and the start time taken
OpenNewNegotiation(state, now) ==
    LET previous_negotiation ==
            [chat_messages |-> state.negotiation_chat_history,
             final_decision |-> "None",
             final_contract |-> NoContract,
             start_time |-> NoTime,
             end_time |-> now]
    IN  [state EXCEPT
           !.negotiation_history =
               IF NegotiationOpen(state) THEN Append(@, previous_negotiation) ELSE @,
           !.negotiation_chat_history = << >>,
           !.negotiation_draft_contract = NoContract,
           !.current_negotiation_start_time = now]

\* variant: the start time of the closed negotiation is kept
AcceptProposalKeepingStart(state, proposed, now) ==
    LET active == [proposed EXCEPT !.remaining_rounds = proposed.length]
        negotiation_record ==
            [chat_messages |-> state.negotiation_chat_history,
             final_decision |-> "accept",
             final_contract |-> to_contract_data(active),
             start_time |-> state.current_negotiation_start_time,
             end_time |-> now]
    IN  [state EXCEPT
           !.contract = active,
           !.negotiation_history = Append(@, negotiation_record),
           !.negotiation_chat_history = << >>,
           !.negotiation_draft_contract = NoContract]

\* lines 169-189: the accepted contract becomes active and the negotiation
\* is closed into negotiation_history
AcceptProposal(state, proposed, now) ==
    LET active == [proposed EXCEPT !.remaining_rounds = proposed.length]
        negotiation_record ==
            [chat_messages |-> state.negotiation_chat_history,
             final_decision |-> "accept",
             final_contract |-> to_contract_data(active),
             start_time |-> state.current_negotiation_start_time,
             end_time |-> now]
    IN  [state EXCEPT
           !.contract = active,
           !.negotiation_history = Append(@, negotiation_record),
           !.negotiation_chat_history = << >>,
           !.negotiation_draft_contract = NoContract,
           !.current_negotiation_start_time = NoTime]

\* variant: the rejection is not put on the transcript
RejectProposalUnrecorded(state, ai_message) == state

\* lines 199-205: the rejection is the first turn of the open transcript
RejectProposal(state, ai_message) ==
    [state EXCEPT !.negotiation_chat_history =
                      Append(@, [role |-> "supplier", content |-> ai_message])]

negotiate(state, request, reply, now, provider, params) ==
    IF is_game_over(state)
    THEN Failure(state, "negotiate", "game_over", request)
    ELSE IF has_active_contract(state)
    THEN Failure(state, "negotiate", "contract_already_active", request)
    ELSE
    LET opened == OpenNewNegotiation(state, now)
        violation == ProposalViolation(request, load_negotiation_config)
        proposed == Contract(request.wholesale_price, request.buyback_price,
                             request.cap_type, request.cap_value, request.length,
                             request.contract_type, request.revenue_share)
        typed == [opened EXCEPT !.initial_contract_type = request.contract_type]
        eval == supplier_evaluate_contract(proposed, params, provider, reply)
        resp == [Response("negotiate", "none", request)
                   EXCEPT !.decision = eval.decision, !.message = eval.message]
    IN  IF violation # "none"
        THEN [state |-> opened,
              resp |-> Response("negotiate", violation, request),
              ticks |-> 1]
        ELSE IF eval.decision = "accept"
        THEN [state |-> AcceptProposal(typed, proposed, now),
              resp |-> resp, ticks |-> 1]
        ELSE IF eval.decision = "counter"
        THEN [state |-> IF eval.counter_contract # NoContract
                        THEN [typed EXCEPT !.negotiation_draft_contract =
                                               eval.counter_contract]
                        ELSE typed,
              resp |-> [resp EXCEPT !.contract = eval.counter_contract],
              ticks |-> 1]
        ELSE IF eval.decision = "reject"
        THEN [state |-> RejectProposal(typed, eval.message),
              resp |-> resp, ticks |-> 1]
        ELSE [state |-> typed,
              resp |-> Response("negotiate", "invalid_supplier_decision", request),
              ticks |-> 1]

(***************************************************************************)
(* generate_chat_response.  A reply of the chat provider is an exception   *)
(* (or only empty completions), a text that is not JSON, or a JSON object  *)
(* with a "response" text and a "contract" (an object, or null / {}).  A   *)
(* JSON contract is the record of the keys it has; bad_number marks one    *)
(* whose numeric value float() cannot convert.                             *)
(***************************************************************************)
JsonNull == [null |-> TRUE]

Get(json, key, default) == IF key \in DOMAIN json THEN json[key] ELSE default

\* str.strip() on the response texts the replies use
Strip(text) ==
    CASE text = " " -> ""
      [] text = " Great, let's lock in these terms. " -> "Great, let's lock in these terms."
      [] OTHER -> text

JsonValid ==
    [wholesale_price |-> 200, buyback_price |-> 50, contract_length |-> 20,
     cap_value |-> 30, contract_type |-> "revenue_sharing", revenue_share |-> 20]

JsonBuybackTooHigh ==
    [wholesale_price |-> 150, buyback_price |-> 150, contract_length |-> 10,
     cap_type |-> "fraction", cap_value |-> 30]

JsonOutOfRange ==
    [wholesale_price |-> 180, buyback_price |-> 0, length |-> 125,
     cap_type |-> "unit", cap_value |-> 250, contract_type |-> "hybrid",
     revenue_share |-> 150]

JsonBadNumber ==
    [wholesale_price |-> 200, buyback_price |-> 50, bad_number |-> TRUE]

ChatReplies ==
    { [kind |-> "raise", response |-> "", contract |-> JsonNull],
      [kind |-> "text", response |-> "", contract |-> JsonNull],
      [kind |-> "json", response |-> " ", contract |-> JsonNull],
      [kind |-> "json", response |-> "Let us talk it over.", contract |-> JsonNull],
      [kind |-> "json", response |-> " Great, let's lock in these terms. ",
       contract |-> JsonValid],
      [kind |-> "json", response |-> " Great, let's lock in these terms. ",
       contract |-> JsonBuybackTooHigh],
      [kind |-> "json", response |-> " Great, let's lock in these terms. ",
       contract |-> JsonOutOfRange],
      [kind |-> "json", response |-> " Great, let's lock in these terms. ",
       contract |-> JsonBadNumber] }

fallback_responses ==
    << "I understand you're asking about contract terms.",
       "Let me help you understand the contract structure.",
       "I'm here to negotiate. What changes are you proposing to the contract?" >>

\* variant: the draft takes the contract type the reply names
contract_type_from_reply(json_contract, initial_ct) ==
    Get(json_contract, "contract_type",
        IF initial_ct \in {"None", ""} THEN "buyback" ELSE initial_ct)

\* line 276: the contract type of a draft is the negotiation's initial type
contract_type_to_use(json_contract, initial_ct) ==
    IF initial_ct \in {"None", ""} THEN "buyback" ELSE initial_ct

\* variant: a buyback price equal to the wholesale price is kept
DraftPricesValidOrEqual(draft_contract) ==
    /\ draft_contract.wholesale_price > 0
    /\ draft_contract.buyback_price >= 0
    /\ draft_contract.buyback_price <= draft_contract.wholesale_price

\* line 298: the prices a draft must have to be kept
DraftPricesValid(draft_contract) ==
    /\ draft_contract.wholesale_price > 0
    /\ draft_contract.buyback_price >= 0
    /\ draft_contract.buyback_price < draft_contract.wholesale_price

\* lines 268-323: the draft contract built from the JSON contract, or none
DraftFromJson(json_contract, initial_ct, neg_config) ==
    IF "null" \in DOMAIN json_contract THEN NoContract
    ELSE IF "bad_number" \in DOMAIN json_contract THEN NoContract
    ELSE
    LET given == Get(json_contract, "contract_length", 0)
        alt == Get(json_contract, "length", 0)
        contract_length ==
            IF given # 0 THEN TruncDiv(given, 10)
            ELSE IF alt # 0 THEN TruncDiv(alt, 10)
            ELSE neg_config.length_min
        default_cap_type ==
            IF neg_config.cap_type_allowed = "unit" THEN "unit"
            ELSE IF neg_config.cap_type_allowed = "both"
            THEN Get(json_contract, "cap_type", "fraction")
            ELSE "fraction"
        draft_contract ==
            Contract(Get(json_contract, "wholesale_price", 0),
                     Get(json_contract, "buyback_price", 0),
                     Get(json_contract, "cap_type", default_cap_type),
                     Get(json_contract, "cap_value", neg_config.cap_value_max),
                     contract_length,
                     contract_type_to_use(json_contract, initial_ct),
                     Get(json_contract, "revenue_share", neg_config.revenue_share_min))
    IN  IF DraftPricesValid(draft_contract)
        THEN [draft_contract EXCEPT
                !.length = Max(neg_config.length_min,
                               Min(@, neg_config.length_max)),
                !.cap_value =
                    IF draft_contract.cap_type = "fraction"
                    THEN Max(neg_config.cap_value_min,
                             Min(@, neg_config.cap_value_max))
                    ELSE IF draft_contract.cap_type = "unit"
                    THEN Max(neg_config.cap_value_min, @)
                    ELSE @,
                !.revenue_share = Max(neg_config.revenue_share_min,
                                      Min(@, neg_config.revenue_share_max)),
                !.contract_type =
                    IF @ \notin {"buyback", "revenue_sharing", "hybrid"}
                    THEN "buyback" ELSE @,
                !.cap_type =
                    IF @ \notin {"fraction", "unit"} THEN "fraction" ELSE @]
        ELSE NoContract

generate_chat_response(chat_history, current_draft_contract, game_state, initial_contract_type, provider, reply) ==
    IF provider \notin {"openai", "deepseek"}
    THEN [message |-> "I'm open to discussing contract terms. What would you like to adjust?",
          draft_contract |-> NoContract]
    ELSE IF reply.kind = "raise"
    THEN [message |-> fallback_responses[(Len(chat_history) % 3) + 1],
          draft_contract |-> current_draft_contract]
    ELSE IF reply.kind # "json" \/ Strip(reply.response) = ""
    THEN [message |-> "I'm having trouble processing that. Could you rephrase your proposal?",
          draft_contract |-> current_draft_contract]
    ELSE [message |-> Strip(reply.response),
          draft_contract |-> DraftFromJson(reply.contract,
                                           game_state.initial_contract_type,
                                           load_negotiation_config)]

(***************************************************************************)
(* negotiation_chat: one student message and the supplier's answer.        *)
(***************************************************************************)
\* variant: a reply without a draft clears the session's draft
negotiation_chat_dropping_draft(state, message, reply, provider) ==
    IF is_game_over(state)
    THEN Failure(state, "negotiation_chat", "game_over", message)
    ELSE
    LET asked == Append(state.negotiation_chat_history,
                        [role |-> "student", content |-> message])
        initial_contract_type ==
            IF state.initial_contract_type \in {"None", ""}
            THEN "buyback" ELSE state.initial_contract_type
        supplier_response ==
            generate_chat_response(asked, state.negotiation_draft_contract,
                                   state, initial_contract_type, provider, reply)
        hasDraft == supplier_response.draft_contract # NoContract
    IN  [state |->
           [state EXCEPT
              !.negotiation_chat_history =
                  Append(asked, [role |-> "supplier",
                                 content |-> supplier_response.message]),
              !.negotiation_draft_contract =
                  supplier_response.draft_contract],
         resp |->
           [Response("negotiation_chat", "none", message)
              EXCEPT !.message = supplier_response.message,
                     !.contract =
                         IF hasDraft
                         THEN to_contract_data(supplier_response.draft_contract)
                         ELSE NoContract],
         ticks |-> 0]

negotiation_chat(state, message, reply, provider) ==
    IF is_game_over(state)
    THEN Failure(state, "negotiation_chat", "game_over", message)
    ELSE
    LET asked == Append(state.negotiation_chat_history,
                        [role |-> "student", content |-> message])
        initial_contract_type ==
            IF state.initial_contract_type \in {"None", ""}
            THEN "buyback" ELSE state.initial_contract_type
        supplier_response ==
            generate_chat_response(asked, state.negotiation_draft_contract,
                                   state, initial_contract_type, provider, reply)
        hasDraft == supplier_response.draft_contract # NoContract
    IN  [state |->
           [state EXCEPT
              !.negotiation_chat_history =
                  Append(asked, [role |-> "supplier",
                                 content |-> supplier_response.message]),
              !.negotiation_draft_contract =
                  IF hasDraft THEN supplier_response.draft_contract ELSE @],
         resp |->
           [Response("negotiation_chat", "none", message)
              EXCEPT !.message = supplier_response.message,
                     !.contract =
                         IF hasDraft
                         THEN to_contract_data(supplier_response.draft_contract)
                         ELSE NoContract],
         ticks |-> 0]

(***************************************************************************)
(* accept_counter: the student accepts or rejects the draft.               *)
(***************************************************************************)
\* variant: the record is written before the acceptance entry is added
AcceptDraftUnannounced(state, now) ==
    LET draft == state.negotiation_draft_contract
        negotiation_record ==
            [chat_messages |-> state.negotiation_chat_history,
             final_decision |-> "accept",
             final_contract |-> to_contract_data(draft),
             start_time |-> state.current_negotiation_start_time,
             end_time |-> now]
    IN  [state EXCEPT
           !.negotiation_history = Append(@, negotiation_record),
           !.contract = [draft EXCEPT !.remaining_rounds = draft.length],
           !.negotiation_chat_history = << >>,
           !.negotiation_draft_contract = NoContract,
           !.current_negotiation_start_time = NoTime]

\* lines 347-369: the acceptance entry, the record, the new contract and the
\* reset of the open-negotiation state
AcceptDraft(state, now) ==
    LET draft == state.negotiation_draft_contract
        chat == Append(state.negotiation_chat_history,
                       [role |-> "student",
                        content |-> "I accept the counteroffer."])
        negotiation_record ==
            [chat_messages |-> chat,
             final_decision |-> "accept",
             final_contract |-> to_contract_data(draft),
             start_time |-> state.current_negotiation_start_time,
             end_time |-> now]
    IN  [state EXCEPT
           !.negotiation_history = Append(@, negotiation_record),
           !.contract = [draft EXCEPT !.remaining_rounds = draft.length],
           !.negotiation_chat_history = << >>,
           !.negotiation_draft_contract = NoContract,
           !.current_negotiation_start_time = NoTime]

\* variant: the draft is discarded without a transcript entry
RejectDraftSilently(state) ==
    [state EXCEPT !.negotiation_draft_contract = NoContract]

\* lines 370-381: the draft is discarded; the rejection is recorded on the
\* transcript if there was a draft
RejectDraft(state) ==
    [state EXCEPT
       !.negotiation_chat_history =
           IF state.negotiation_draft_contract # NoContract
           THEN Append(@, [role |-> "student",
                           content |-> "I've rejected the previous counteroffer. Let's continue discussing terms."])
           ELSE @,
       !.negotiation_draft_contract = NoContract]

\* variant: accepting without a draft is answered like a rejection
accept_counter_lenient(state, accept, now) ==
    IF is_game_over(state)
    THEN Failure(state, "accept_counter", "game_over", accept)
    ELSE IF accept /\ state.negotiation_draft_contract # NoContract
    THEN [state |-> AcceptDraft(state, now),
          resp |-> [Response("accept_counter", "none", accept)
                      EXCEPT !.decision = "accept"],
          ticks |-> 1]
    ELSE [state |-> RejectDraft(state),
          resp |-> [Response("accept_counter", "none", accept)
                      EXCEPT !.decision = "reject"],
          ticks |-> 0]

accept_counter(state, accept, now) ==
    IF is_game_over(state)
    THEN Failure(state, "accept_counter", "game_over", accept)
    ELSE IF accept
    THEN IF state.negotiation_draft_contract = NoContract
         THEN Failure(state, "accept_counter", "no_counteroffer", accept)
         ELSE [state |-> AcceptDraft(state, now),
               resp |-> [Response("accept_counter", "none", accept)
                           EXCEPT !.decision = "accept"],
               ticks |-> 1]
    ELSE [state |-> RejectDraft(state),
          resp |-> [Response("accept_counter", "none", accept)
                      EXCEPT !.decision = "reject"],
          ticks |-> 0]

(***************************************************************************)
(* Closing the open negotiation when the game ends (end_game_early lines   *)
(* 374-393, get_game_summary lines 279-298): skipped when the last record  *)
(* of negotiation_history has the same start time and transcript.          *)
(***************************************************************************)
\* variant: the open negotiation is recorded like an abandoned one
SaveOngoingNegotiationAsAbandoned(state, now) ==
    [state EXCEPT !.negotiation_history =
        Append(@, [chat_messages |-> state.negotiation_chat_history,
                   final_decision |-> "None",
                   final_contract |-> NoContract,
                   start_time |-> state.current_negotiation_start_time,
                   end_time |-> now])]

\* variant: the open negotiation overwrites the last record
SaveOngoingNegotiationOverLast(state, now) ==
    LET history == state.negotiation_history
        ongoing_negotiation ==
            [chat_messages |-> state.negotiation_chat_history,
             final_decision |->
                 IF state.negotiation_draft_contract # NoContract
                 THEN "ongoing" ELSE "rejected",
             final_contract |->
                 IF state.negotiation_draft_contract # NoContract
                 THEN to_contract_data(state.negotiation_draft_contract)
                 ELSE NoContract,
             start_time |-> state.current_negotiation_start_time,
             end_time |-> now]
    IN  IF history = << >>
        THEN [state EXCEPT !.negotiation_history = << ongoing_negotiation >>]
        ELSE [state EXCEPT !.negotiation_history[Len(history)] = ongoing_negotiation]

SaveOngoingNegotiation(state, now) ==
    LET current_start_time == state.current_negotiation_start_time
        history == state.negotiation_history
        already_saved ==
            /\ history # << >>
            /\ current_start_time # NoTime
            /\ history[Len(history)].start_time = current_start_time
            /\ history[Len(history)].chat_messages = state.negotiation_chat_history
        ongoing_negotiation ==
            [chat_messages |-> state.negotiation_chat_history,
             final_decision |->
                 IF state.negotiation_draft_contract # NoContract
                 THEN "ongoing" ELSE "rejected",
             final_contract |->
                 IF state.negotiation_draft_contract # NoContract
                 THEN to_contract_data(state.negotiation_draft_contract)
                 ELSE NoContract,
             start_time |-> current_start_time,
             end_time |-> now]
    IN  IF already_saved THEN state
        ELSE [state EXCEPT !.negotiation_history = Append(@, ongoing_negotiation)]

\* whether SaveOngoingNegotiation reads the clock (it appends a record)
SavesOngoing(state) ==
    SaveOngoingNegotiation(state, NoTime).negotiation_history
        # state.negotiation_history

end_game_early(state, now) ==
    IF is_game_over(state)
    THEN Failure(state, "end_game_early", "already_over", "")
    ELSE LET ended == [state EXCEPT !.ended_early = TRUE]
         IN  [state |-> IF NegotiationOpen(ended)
                        THEN SaveOngoingNegotiation(ended, now) ELSE ended,
              resp |-> Response("end_game_early", "none", ""),
              ticks |-> IF NegotiationOpen(ended) /\ SavesOngoing(ended)
                        THEN 1 ELSE 0]

get_game_summary(state, now) ==
    IF ~is_game_over(state)
    THEN Failure(state, "get_game_summary", "game_not_over", "")
    ELSE LET saves == ~state.ended_early /\ NegotiationOpen(state)
         IN  [state |-> IF saves THEN SaveOngoingNegotiation(state, now) ELSE state,
              resp |-> Response("get_game_summary", "none", ""),
              ticks |-> IF saves /\ SavesOngoing(state) THEN 1 ELSE 0]

(***************************************************************************)
(* Inputs of the requests.                                                 *)
(***************************************************************************)
SessionIds == {"s1"}

OrderQuantities == {-1, 3}

StudentMessages == {"Could you lower the wholesale price?"}

AiProviders == {"none", "openai"}

NegotiateRequest(w, b, capType, capValue, len, ctype, share) ==
    [wholesale_price |-> w, buyback_price |-> b, cap_type |-> capType,
     cap_value |-> capValue, length |-> len, contract_type |-> ctype,
     revenue_share |-> share]

Proposals ==
    { NegotiateRequest(170, 40, "fraction", 30, 1, "buyback", 0),
      NegotiateRequest(170, 40, "fraction", 30, 2, "revenue_sharing", 20),
      NegotiateRequest(100, 40, "fraction", 30, 2, "revenue_sharing", 20),
      NegotiateRequest(100, 100, "fraction", 30, 1, "hybrid", 20),
      NegotiateRequest(170, 180, "fraction", 30, 1, "buyback", 0),
      NegotiateRequest(170, 40, "fraction", 30, 1, "wholesale", 0),
      NegotiateRequest(170, 40, "fraction", 30, 11, "buyback", 0),
      NegotiateRequest(170, 40, "unit", 30, 1, "buyback", 0),
      NegotiateRequest(170, 40, "fraction", 60, 1, "buyback", 0),
      NegotiateRequest(170, 40, "fraction", 30, 1, "hybrid", 150) }

(***************************************************************************)
(* The requests the state machine draws.  The handlers above are defined   *)
(* on every request; the actions below draw one request of each outcome.   *)
(***************************************************************************)
StartRequests == {"bootstrap", "poisson"}

OrderRequests == {3}

NegotiateRequests ==
    { NegotiateRequest(170, 40, "fraction", 30, 1, "buyback", 0),
      NegotiateRequest(170, 40, "fraction", 30, 2, "revenue_sharing", 20),
      NegotiateRequest(100, 100, "fraction", 30, 1, "hybrid", 20),
      NegotiateRequest(170, 40, "fraction", 30, 11, "buyback", 0) }

NegotiateReplies ==
    { [kind |-> "raise", decision |-> "", message |-> ""],
      [kind |-> "text", decision |-> "REJECT", message |-> "**Too low.**"] }

ChatRequestReplies ==
    { [kind |-> "json", response |-> " Great, let's lock in these terms. ",
       contract |-> JsonValid],
      [kind |-> "json", response |-> " Great, let's lock in these terms. ",
       contract |-> JsonBuybackTooHigh] }

(***************************************************************************)
(* The state machine.  SESSIONS is the session dictionary; clock is the    *)
(* last instant datetime.now() returned; last names the last request, the  *)
(* session it addressed, its error and its decision.  orders_on_contract   *)
(* is a history variable: per session, the successful place_order calls    *)
(* since its contract was last replaced.  proposed_type is a history       *)
(* variable too: per session, the contract_type of the last negotiate      *)
(* call that returned a decision ("None" before the first).                *)
(* DEFAULT_PARAMS and DEFAULT_HISTORY are the globals of simulation.core,   *)
(* which reload_defaults rebinds; game_DEFAULT_HISTORY is the name          *)
(* DEFAULT_HISTORY of app.routes.game, bound once by its from-import to the *)
(* list loaded at import, and read by start_game.                           *)
(***************************************************************************)
Last(sid, resp) ==
    [sid |-> sid, op |-> resp.op, err |-> resp.err, decision |-> resp.decision]

\* round_result: the last simulate_round call, its arguments, the parameters
\* get_current_params returned to it and its RoundOutput (NoOutput before
\* the call returns); NoRound before the first call
NoRound == [none |-> TRUE]

Round(contract, round_input, params, output) ==
    [contract |-> contract, round_input |-> round_input, params |-> params,
     output |-> output]

\* evaluation: one supplier_evaluate_contract call made on its own, its
\* arguments, the provider's reply and, once it has returned, what it and
\* the fallback evaluation return (NoEvaluation when no such call is made)
NoEvaluation == [none |-> TRUE]

NoResult == [none |-> TRUE]

Evaluation(proposed, params, provider, reply, fallback, result) ==
    [proposed |-> proposed, params |-> params, provider |-> provider,
     reply |-> reply, fallback |-> fallback, result |-> result]

\* in_flight: the requests being served by the worker threads one statement
\* at a time, each with its position and local variables (NoRequests when
\* every request is served in one piece)
NoRequests == [thread \in {} |-> [op |-> "none"]]

\* the installed configuration files: parameters and seed history
ConfigFiles ==
    { [params |-> EconomicParams, history |-> <<2>>],
      [params |-> AltEconomicParams, history |-> <<4>>] }

Init ==
    /\ SESSIONS = [sid \in {} |-> GameState(0, "bootstrap", << >>)]
    /\ \E files \in ConfigFiles :
         /\ DEFAULT_PARAMS = files.params
         /\ DEFAULT_HISTORY = files.history
         /\ game_DEFAULT_HISTORY = files.history
    /\ ai_provider \in AiProviders
    /\ clock = NoTime
    /\ last = Last("", Response("none", "none", ""))
    /\ orders_on_contract = [sid \in {} |-> 0]
    /\ proposed_type = [sid \in {} |-> "None"]
    /\ round_result = NoRound
    /\ evaluation = NoEvaluation
    /\ in_flight = NoRequests

\* variant: the sessions share one demand-history list
ApplySharingHistory(sid, r) ==
    /\ clock + r.ticks <= MaxClock
    /\ Len(r.state.negotiation_chat_history) <= MaxTranscript
    /\ Len(r.state.negotiation_history) <= MaxRecords
    /\ clock' = clock + r.ticks
    /\ SESSIONS' =
         [s \in DOMAIN SESSIONS |->
            IF s = sid THEN r.state
            ELSE [SESSIONS[s] EXCEPT
                    !.historical_demands = r.state.historical_demands]]
    /\ last' = Last(sid, r.resp)
    /\ orders_on_contract' =
         [orders_on_contract EXCEPT ![sid] =
            IF r.resp.op = "place_order" /\ r.resp.err = "none" THEN @ + 1
            ELSE IF r.resp.op \in {"negotiate", "accept_counter"}
                    /\ r.resp.err = "none" /\ r.resp.decision = "accept" THEN 0
            ELSE @]
    /\ proposed_type' =
         [proposed_type EXCEPT ![sid] =
            IF r.resp.op = "negotiate" /\ r.resp.err = "none"
            THEN r.resp.request.contract_type ELSE @]
    /\ round_result' =
         IF r.resp.op = "place_order" /\ r.resp.err = "none"
         THEN Round(SESSIONS[sid].contract,
                    [order_quantity |-> r.resp.round_output.order_quantity,
                     realized_demand |-> r.resp.round_output.realized_demand],
                    DEFAULT_PARAMS, r.resp.round_output)
         ELSE round_result
    /\ UNCHANGED <<DEFAULT_PARAMS, DEFAULT_HISTORY, game_DEFAULT_HISTORY,
                   ai_provider, evaluation, in_flight>>

\* a handler's result r is applied to session sid
Apply(sid, r) ==
    /\ clock + r.ticks <= MaxClock
    /\ Len(r.state.negotiation_chat_history) <= MaxTranscript
    /\ Len(r.state.negotiation_history) <= MaxRecords
    /\ clock' = clock + r.ticks
    /\ SESSIONS' = [SESSIONS EXCEPT ![sid] = r.state]
    /\ last' = Last(sid, r.resp)
    /\ orders_on_contract' =
         [orders_on_contract EXCEPT ![sid] =
            IF r.resp.op = "place_order" /\ r.resp.err = "none" THEN @ + 1
            ELSE IF r.resp.op \in {"negotiate", "accept_counter"}
                    /\ r.resp.err = "none" /\ r.resp.decision = "accept" THEN 0
            ELSE @]
    /\ proposed_type' =
         [proposed_type EXCEPT ![sid] =
            IF r.resp.op = "negotiate" /\ r.resp.err = "none"
            THEN r.resp.request.contract_type ELSE @]
    /\ round_result' =
         IF r.resp.op = "place_order" /\ r.resp.err = "none"
         THEN Round(SESSIONS[sid].contract,
                    [order_quantity |-> r.resp.round_output.order_quantity,
                     realized_demand |-> r.resp.round_output.realized_demand],
                    DEFAULT_PARAMS, r.resp.round_output)
         ELSE round_result
    /\ UNCHANGED <<DEFAULT_PARAMS, DEFAULT_HISTORY, game_DEFAULT_HISTORY,
                   ai_provider, evaluation, in_flight>>

StartGame ==
    \E sid \in SessionIds \ DOMAIN SESSIONS, rounds \in 0..MaxRounds,
       demand_method \in StartRequests :
        /\ IF demand_method \notin {"bootstrap", "normal"}
           THEN /\ UNCHANGED <<SESSIONS, orders_on_contract, proposed_type>>
                /\ last' = Last(sid, Response("start_game", "invalid_demand_method",
                                              demand_method))
           ELSE /\ SESSIONS' = (sid :> GameState(rounds, demand_method, game_DEFAULT_HISTORY))
                                @@ SESSIONS
                /\ orders_on_contract' = (sid :> 0) @@ orders_on_contract
                /\ proposed_type' = (sid :> "None") @@ proposed_type
                /\ last' = Last(sid, Response("start_game", "none", demand_method))
        /\ UNCHANGED <<DEFAULT_PARAMS, DEFAULT_HISTORY, game_DEFAULT_HISTORY,
                       ai_provider, clock, round_result, evaluation, in_flight>>

\* variant: rounds are simulated with the parameters loaded at import
PlaceOrderWithImportedParams(sid) ==
    \E order_quantity \in OrderRequests :
      \E D \in generate_demand(SESSIONS[sid].historical_demands, SESSIONS[sid].method) :
        Apply(sid, place_order(SESSIONS[sid], order_quantity, D, EconomicParams))

PlaceOrder(sid) ==
    \E order_quantity \in OrderRequests :
      \E D \in generate_demand(SESSIONS[sid].historical_demands, SESSIONS[sid].method) :
        Apply(sid, place_order(SESSIONS[sid], order_quantity, D, DEFAULT_PARAMS))

Negotiate(sid) ==
    \E request \in NegotiateRequests, reply \in NegotiateReplies :
        Apply(sid, negotiate(SESSIONS[sid], request, reply, clock + 1,
                             ai_provider, DEFAULT_PARAMS))

NegotiationChat(sid) ==
    \E message \in StudentMessages, reply \in ChatRequestReplies :
        Apply(sid, negotiation_chat(SESSIONS[sid], message, reply, ai_provider))

AcceptCounter(sid) ==
    \E accept \in BOOLEAN :
        Apply(sid, accept_counter(SESSIONS[sid], accept, clock + 1))

EndGameEarly(sid) == Apply(sid, end_game_early(SESSIONS[sid], clock + 1))

GetGameSummary(sid) == Apply(sid, get_game_summary(SESSIONS[sid], clock + 1))

\* update_config / reload_defaults: the files on disk replace the defaults
ReloadDefaults ==
    /\ \E files \in ConfigFiles :
         /\ DEFAULT_PARAMS' = files.params
         /\ DEFAULT_HISTORY' = files.history
    /\ last' = Last("", Response("reload_defaults", "none", ""))
    /\ UNCHANGED <<SESSIONS, game_DEFAULT_HISTORY, ai_provider, clock,
                   orders_on_contract, proposed_type, round_result, evaluation, in_flight>>

Next ==
    \/ StartGame
    \/ ReloadDefaults
    \/ \E sid \in DOMAIN SESSIONS : PlaceOrder(sid)
    \/ \E sid \in DOMAIN SESSIONS : Negotiate(sid)
    \/ \E sid \in DOMAIN SESSIONS : NegotiationChat(sid)
    \/ \E sid \in DOMAIN SESSIONS : AcceptCounter(sid)
    \/ \E sid \in DOMAIN SESSIONS : EndGameEarly(sid)
    \/ \E sid \in DOMAIN SESSIONS : GetGameSummary(sid)

Spec == Init /\ [][Next]_vars

(***************************************************************************)
(* Two games side by side: one-round bootstrap games under the session ids  *)
(* of TwoSessionIds, with every request of Spec but the reload.             *)
(***************************************************************************)
TwoSessionIds == {"s1", "s2"}

\* one installation: the stock configuration files and no provider key
TwoInit ==
    /\ Init
    /\ DEFAULT_PARAMS = EconomicParams
    /\ ai_provider = "none"

StartOneOfTwo ==
    \E sid \in TwoSessionIds \ DOMAIN SESSIONS :
        /\ SESSIONS' = (sid :> GameState(1, "bootstrap", game_DEFAULT_HISTORY))
                        @@ SESSIONS
        /\ orders_on_contract' = (sid :> 0) @@ orders_on_contract
        /\ proposed_type' = (sid :> "None") @@ proposed_type
        /\ last' = Last(sid, Response("start_game", "none", "bootstrap"))
        /\ UNCHANGED <<DEFAULT_PARAMS, DEFAULT_HISTORY, game_DEFAULT_HISTORY,
                       ai_provider, clock, round_result, evaluation, in_flight>>

TwoNext ==
    \/ StartOneOfTwo
    \/ \E sid \in DOMAIN SESSIONS : PlaceOrder(sid)
    \/ \E sid \in DOMAIN SESSIONS : Negotiate(sid)
    \/ \E sid \in DOMAIN SESSIONS : NegotiationChat(sid)
    \/ \E sid \in DOMAIN SESSIONS : AcceptCounter(sid)
    \/ \E sid \in DOMAIN SESSIONS : EndGameEarly(sid)
    \/ \E sid \in DOMAIN SESSIONS : GetGameSummary(sid)

TwoSpec == TwoInit /\ [][TwoNext]_vars

(***************************************************************************)
(* simulate_round on its own: the contract, the round input and the         *)
(* parameters are drawn at the start, and the one step is the call.         *)
(***************************************************************************)
RoundQuantities == {-1, 0, 3, 50, 100}

RoundDemands == {0, 2, 4, 70, 80}

\* contracts of every type simulate_round distinguishes ("" is read as
\* buyback, any other name falls back to plain wholesale)
RoundContracts ==
    { Contract(w, 40, capType, capValue, 3, ctype, share) :
        w \in {100, 170}, capType \in {"fraction", "unit"},
        capValue \in {0, 30, 250},
        ctype \in {"buyback", "revenue_sharing", "hybrid", "wholesale", ""},
        share \in {-10, 0, 20, 150} }

RoundInit ==
    /\ SESSIONS = [sid \in {} |-> GameState(0, "bootstrap", << >>)]
    /\ \E files \in ConfigFiles :
         /\ DEFAULT_PARAMS = files.params
         /\ DEFAULT_HISTORY = files.history
         /\ game_DEFAULT_HISTORY = files.history
    /\ ai_provider = "none"
    /\ clock = NoTime
    /\ last = Last("", Response("none", "none", ""))
    /\ orders_on_contract = [sid \in {} |-> 0]
    /\ proposed_type = [sid \in {} |-> "None"]
    /\ \E contract \in RoundContracts, Q \in RoundQuantities, D \in RoundDemands :
         round_result = Round(contract,
                              [order_quantity |-> Q, realized_demand |-> D],
                              DEFAULT_PARAMS, NoOutput)
    /\ evaluation = NoEvaluation
    /\ in_flight = NoRequests

SimulateRound ==
    /\ round_result.output = NoOutput
    /\ round_result' =
         [round_result EXCEPT
            !.output = simulate_round(round_result.contract,
                                      round_result.round_input,
                                      round_result.params).output]
    /\ UNCHANGED <<SESSIONS, DEFAULT_PARAMS, DEFAULT_HISTORY,
                   game_DEFAULT_HISTORY, ai_provider, clock,
                   last, orders_on_contract, proposed_type, evaluation, in_flight>>

RoundNext == SimulateRound

RoundSpec == RoundInit /\ [][RoundNext]_vars

(***************************************************************************)
(* supplier_evaluate_contract on its own: the proposal, the parameters, the *)
(* provider and its reply are drawn at the start, and the one step is the   *)
(* call.                                                                    *)
(***************************************************************************)
EvalWholesalePrices == {120, 130, 165, 169, 170, 200}

EvalBuybackPrices == {40, 159, 160, 161, 170, 190, 200}

\* the terms of a proposal other than its two prices
EvalOtherTerms ==
    { NegotiateRequest(0, 0, "fraction", 30, 1, "buyback", 0),
      NegotiateRequest(0, 0, "unit", 250, 3, "hybrid", 20),
      NegotiateRequest(0, 0, "fraction", 0, 10, "revenue_sharing", 150) }

EvalProposals ==
    { Contract(w, b, t.cap_type, t.cap_value, t.length, t.contract_type,
               t.revenue_share) :
        w \in EvalWholesalePrices, b \in EvalBuybackPrices, t \in EvalOtherTerms }

EvalInit ==
    /\ SESSIONS = [sid \in {} |-> GameState(0, "bootstrap", << >>)]
    /\ \E files \in ConfigFiles :
         /\ DEFAULT_PARAMS = files.params
         /\ DEFAULT_HISTORY = files.history
         /\ game_DEFAULT_HISTORY = files.history
    /\ ai_provider \in AiProviders
    /\ clock = NoTime
    /\ last = Last("", Response("none", "none", ""))
    /\ orders_on_contract = [sid \in {} |-> 0]
    /\ proposed_type = [sid \in {} |-> "None"]
    /\ round_result = NoRound
    /\ \E proposed \in EvalProposals, reply \in EvalReplies :
         evaluation = Evaluation(proposed, DEFAULT_PARAMS, ai_provider, reply,
                                 NoResult, NoResult)
    /\ in_flight = NoRequests

EvaluateProposal ==
    /\ evaluation.result = NoResult
    /\ evaluation' =
         [evaluation EXCEPT
            !.fallback = evaluate_proposal_simple_logic(evaluation.proposed,
                                                        evaluation.params),
            !.result = supplier_evaluate_contract(evaluation.proposed,
                                                  evaluation.params,
                                                  evaluation.provider,
                                                  evaluation.reply)]
    /\ UNCHANGED <<SESSIONS, DEFAULT_PARAMS, DEFAULT_HISTORY,
                   game_DEFAULT_HISTORY, ai_provider, clock,
                   last, orders_on_contract, proposed_type, round_result,
                   in_flight>>

EvalNext == EvaluateProposal

EvalSpec == EvalInit /\ [][EvalNext]_vars

(***************************************************************************)
(* simulate_round and reload_defaults on two worker threads.  The round    *)
(* takes the current parameter object once and then reads its fields, the  *)
(* buyer side first and the supplier side after it; the reload rebinds the *)
(* two globals one after the other.  The statements of the two threads     *)
(* interleave in every order.                                              *)
(***************************************************************************)
ParamFields == DOMAIN EconomicParams

BuyerSideFields ==
    {"retail_price", "buyer_salvage_value", "return_shipping_buyer"}

SupplierSideFields ==
    {"supplier_salvage_value", "supplier_cost", "return_handling_supplier"}

\* no field of the parameters has been read yet
Unread == [f \in ParamFields |-> -1]

\* variant: every field is read through the global, not through the local
ParamsOfGlobal(frame) == DEFAULT_PARAMS

\* the object the round's statements read their parameters from: the local
\* `params`
ParamsOf(frame) == frame.params

\* the fields a block of statements reads, added to those read before it
ReadFields(used, fields, params) ==
    [f \in ParamFields |-> IF f \in fields THEN params[f] ELSE used[f]]

SnapshotContracts ==
    { Contract(170, 40, "fraction", 30, 3, ctype, share) :
        ctype \in {"buyback", "revenue_sharing", "hybrid", "wholesale", ""},
        share \in {0, 20} }

SnapshotQuantities == {3, 50, 100}

SnapshotDemands == {2, 70, 80}

SnapshotInit ==
    /\ SESSIONS = [sid \in {} |-> GameState(0, "bootstrap", << >>)]
    /\ \E files \in ConfigFiles :
         /\ DEFAULT_PARAMS = files.params
         /\ DEFAULT_HISTORY = files.history
         /\ game_DEFAULT_HISTORY = files.history
    /\ ai_provider = "none"
    /\ clock = NoTime
    /\ last = Last("", Response("none", "none", ""))
    /\ orders_on_contract = [sid \in {} |-> 0]
    /\ proposed_type = [sid \in {} |-> "None"]
    /\ round_result = NoRound
    /\ evaluation = NoEvaluation
    /\ \E contract \in SnapshotContracts, Q \in SnapshotQuantities,
          D \in SnapshotDemands, files \in ConfigFiles :
         in_flight =
           [round |-> [op |-> "simulate_round", pc |-> "params",
                       contract |-> contract,
                       round_input |-> [order_quantity |-> Q,
                                        realized_demand |-> D],
                       params |-> Unread, used |-> Unread,
                       output |-> NoOutput],
            reload |-> [op |-> "reload_defaults", pc |-> "params",
                        files |-> files, was |-> DEFAULT_PARAMS,
                        during |-> "none"]]

\* params = get_current_params()
RoundGetCurrentParams ==
    /\ in_flight.round.pc = "params"
    /\ in_flight' = [in_flight EXCEPT !.round.params = DEFAULT_PARAMS,
                                      !.round.pc = "buyer"]
    /\ UNCHANGED <<SESSIONS, DEFAULT_PARAMS, DEFAULT_HISTORY,
                   game_DEFAULT_HISTORY, ai_provider, clock, last,
                   orders_on_contract, proposed_type, round_result, evaluation>>

\* the buyer side calculations
RoundBuyerSide ==
    /\ in_flight.round.pc = "buyer"
    /\ in_flight' =
         [in_flight EXCEPT
            !.round.used = ReadFields(@, BuyerSideFields,
                                      ParamsOf(in_flight.round)),
            !.round.pc = "supplier"]
    /\ UNCHANGED <<SESSIONS, DEFAULT_PARAMS, DEFAULT_HISTORY,
                   game_DEFAULT_HISTORY, ai_provider, clock, last,
                   orders_on_contract, proposed_type, round_result, evaluation>>

\* the supplier side calculations and the return of the RoundOutput
RoundSupplierSide ==
    /\ in_flight.round.pc = "supplier"
    /\ LET used == ReadFields(in_flight.round.used, SupplierSideFields,
                              ParamsOf(in_flight.round))
       IN  in_flight' =
             [in_flight EXCEPT
                !.round.used = used,
                !.round.output = simulate_round(in_flight.round.contract,
                                                in_flight.round.round_input,
                                                used).output,
                !.round.pc = "done"]
    /\ UNCHANGED <<SESSIONS, DEFAULT_PARAMS, DEFAULT_HISTORY,
                   game_DEFAULT_HISTORY, ai_provider, clock, last,
                   orders_on_contract, proposed_type, round_result, evaluation>>

\* DEFAULT_PARAMS = load_economic_params_from_json(...)
ReloadParams ==
    /\ in_flight.reload.pc = "params"
    /\ DEFAULT_PARAMS' = in_flight.reload.files.params
    /\ in_flight' = [in_flight EXCEPT !.reload.pc = "history",
                                      !.reload.during = in_flight.round.pc]
    /\ UNCHANGED <<SESSIONS, DEFAULT_HISTORY,
                   game_DEFAULT_HISTORY, ai_provider, clock, last,
                   orders_on_contract, proposed_type, round_result, evaluation>>

\* DEFAULT_HISTORY = load_demand_history_from_csv(...)
ReloadHistory ==
    /\ in_flight.reload.pc = "history"
    /\ DEFAULT_HISTORY' = in_flight.reload.files.history
    /\ in_flight' = [in_flight EXCEPT !.reload.pc = "done"]
    /\ UNCHANGED <<SESSIONS, DEFAULT_PARAMS,
                   game_DEFAULT_HISTORY, ai_provider, clock, last,
                   orders_on_contract, proposed_type, round_result, evaluation>>

SnapshotNext ==
    \/ RoundGetCurrentParams
    \/ RoundBuyerSide
    \/ RoundSupplierSide
    \/ ReloadParams
    \/ ReloadHistory

SnapshotSpec == SnapshotInit /\ [][SnapshotNext]_vars

(***************************************************************************)
(* place_order on two worker threads.  A request first looks the session   *)
(* up and makes its two checks, and in a later statement simulates the     *)
(* round on the session object and stores it; the statements of the two    *)
(* requests interleave in every order.  Games are started and contracts    *)
(* negotiated while no order is in flight.  `raced` records that a request *)
(* made its checks while another one on the same session was between its   *)
(* checks and its round.                                                   *)
(***************************************************************************)
OrderThreads == {"t1", "t2"}

IdleOrder ==
    [op |-> "place_order", pc |-> "idle", sid |-> "", order_quantity |-> 0,
     raced |-> FALSE]

RaceInit ==
    /\ SESSIONS = [sid \in {} |-> GameState(0, "bootstrap", << >>)]
    /\ DEFAULT_PARAMS = EconomicParams
    /\ \E files \in ConfigFiles :
         /\ files.params = DEFAULT_PARAMS
         /\ DEFAULT_HISTORY = files.history
         /\ game_DEFAULT_HISTORY = files.history
    /\ ai_provider = "none"
    /\ clock = NoTime
    /\ last = Last("", Response("none", "none", ""))
    /\ orders_on_contract = [sid \in {} |-> 0]
    /\ proposed_type = [sid \in {} |-> "None"]
    /\ round_result = NoRound
    /\ evaluation = NoEvaluation
    /\ in_flight = [thread \in OrderThreads |-> IdleOrder]

NoOrderInFlight == \A thread \in OrderThreads : in_flight[thread].pc = "idle"

\* variant: the request goes on without an active contract
OrderChecksPassWithoutContract(state) == ~is_game_over(state)

\* the two checks of place_order let the request go on
OrderChecksPass(state) ==
    /\ ~is_game_over(state)
    /\ ~(state.contract.remaining_rounds <= 0)

\* session lookup and the two checks: a request that fails them is answered
\* at once, one that passes them goes on to its round
OrderChecks(thread) ==
    /\ in_flight[thread].pc = "idle"
    /\ \E sid \in DOMAIN SESSIONS, order_quantity \in OrderRequests :
         IF OrderChecksPass(SESSIONS[sid])
         THEN /\ in_flight' =
                   [in_flight EXCEPT ![thread] =
                      [op |-> "place_order", pc |-> "checked", sid |-> sid,
                       order_quantity |-> order_quantity,
                       raced |-> \/ in_flight[thread].raced
                                 \/ \E other \in OrderThreads \ {thread} :
                                        /\ in_flight[other].pc = "checked"
                                        /\ in_flight[other].sid = sid]]
              /\ UNCHANGED <<SESSIONS, DEFAULT_PARAMS, DEFAULT_HISTORY,
                             game_DEFAULT_HISTORY, ai_provider, clock, last,
                             orders_on_contract, proposed_type, round_result,
                             evaluation>>
         ELSE \E D \in generate_demand(SESSIONS[sid].historical_demands,
                                       SESSIONS[sid].method) :
                  Apply(sid, place_order(SESSIONS[sid], order_quantity, D,
                                         DEFAULT_PARAMS))

\* simulate_game_round on the session object, SESSIONS[session_id] = new_state
\* and the response
OrderSimulates(thread) ==
    /\ in_flight[thread].pc = "checked"
    /\ LET sid == in_flight[thread].sid
           state == SESSIONS[sid]
       IN  \E D \in generate_demand(state.historical_demands, state.method) :
             LET r == simulate_game_round(state,
                                          in_flight[thread].order_quantity,
                                          D, DEFAULT_PARAMS)
             IN  /\ SESSIONS' = [SESSIONS EXCEPT ![sid] = r.state]
                 /\ last' = Last(sid, Response("place_order", "none",
                                     in_flight[thread].order_quantity))
                 /\ orders_on_contract' =
                      [orders_on_contract EXCEPT ![sid] = @ + 1]
                 /\ round_result' =
                      Round(state.contract,
                            [order_quantity |-> r.round_output.order_quantity,
                             realized_demand |-> r.round_output.realized_demand],
                            DEFAULT_PARAMS, r.round_output)
    /\ in_flight' = [in_flight EXCEPT ![thread].pc = "idle"]
    /\ UNCHANGED <<DEFAULT_PARAMS, DEFAULT_HISTORY, game_DEFAULT_HISTORY,
                   ai_provider, clock, proposed_type, evaluation>>

RaceNext ==
    \/ NoOrderInFlight /\ StartGame
    \/ NoOrderInFlight /\ \E sid \in DOMAIN SESSIONS : Negotiate(sid)
    \/ \E thread \in OrderThreads : OrderChecks(thread)
    \/ \E thread \in OrderThreads : OrderSimulates(thread)

RaceSpec == RaceInit /\ [][RaceNext]_vars

(***************************************************************************)
(* A game played to its end: the client negotiates proposals the supplier  *)
(* accepts and places orders, and may end the game early or ask for the    *)
(* summary in between.  An order is placed whenever a contract is active   *)
(* and a contract is accepted whenever none is (weak fairness of the two   *)
(* successful requests).                                                   *)
(***************************************************************************)
\* proposals of which the supplier accepts one under either parameter file
PlayRequests ==
    { NegotiateRequest(170, 40, "fraction", 30, 1, "buyback", 0),
      NegotiateRequest(200, 40, "fraction", 30, 1, "hybrid", 20),
      NegotiateRequest(200, 40, "fraction", 30, 2, "revenue_sharing", 20) }

NegotiateAccepted(sid) ==
    \E request \in PlayRequests, reply \in NegotiateReplies :
        LET r == negotiate(SESSIONS[sid], request, reply, clock + 1,
                           ai_provider, DEFAULT_PARAMS)
        IN  /\ r.resp.err = "none"
            /\ r.resp.decision = "accept"
            /\ Apply(sid, r)

OrderPlaced(sid) ==
    /\ ~is_game_over(SESSIONS[sid])
    /\ SESSIONS[sid].contract.remaining_rounds > 0
    /\ PlaceOrder(sid)

PlayNext ==
    \/ StartGame
    \/ \E sid \in DOMAIN SESSIONS : PlaceOrder(sid)
    \/ \E sid \in DOMAIN SESSIONS : NegotiateAccepted(sid)
    \/ \E sid \in DOMAIN SESSIONS : EndGameEarly(sid)
    \/ \E sid \in DOMAIN SESSIONS : GetGameSummary(sid)

PlaySpec ==
    /\ Init
    /\ [][PlayNext]_vars
    /\ WF_vars(\E sid \in DOMAIN SESSIONS : OrderPlaced(sid))
    /\ WF_vars(\E sid \in DOMAIN SESSIONS : NegotiateAccepted(sid))

(***************************************************************************)
(* Properties.  Each one is stated over every session of a reachable       *)
(* state and, where it is about one call, over every request of the call.  *)
(***************************************************************************)
\* the instant the next call reads from datetime.now()
Now == clock + 1

\* demands a round may realise
Demands == {0, 2, 4}

\* the session's contract was accepted in a negotiation (not the placeholder)
Negotiated(state) == state.contract.length > 0

\* C1 (as stated): remaining_rounds = L - N after N successful orders on a
\* negotiated contract of length L, 0 <= remaining_rounds <= length in every
\* state, and the order after the L-th is refused as "no active contract".
C1_AsStated ==
    \A sid \in DOMAIN SESSIONS :
        LET state == SESSIONS[sid]
            L == state.contract.length
            N == orders_on_contract[sid]
        IN  /\ 0 <= state.contract.remaining_rounds
            /\ state.contract.remaining_rounds <= L
            /\ Negotiated(state) =>
                 /\ N <= L
                 /\ state.contract.remaining_rounds = L - N
            /\ (Negotiated(state) /\ N = L) =>
                 \A order_quantity \in OrderQuantities, D \in Demands :
                     place_order(state, order_quantity, D, DEFAULT_PARAMS).resp.err
                         = "no_active_contract"

\* C1 (amended): remaining_rounds = L - N after N successful orders on a
\* negotiated contract of length L, 0 <= remaining_rounds <= length in every
\* state, and the order after the L-th is refused: as "no active contract"
\* while the game is not over, as "game over" once it is.
C1_RemainingRounds ==
    \A sid \in DOMAIN SESSIONS :
        LET state == SESSIONS[sid]
            L == state.contract.length
            N == orders_on_contract[sid]
            over == state.round_number > state.total_rounds \/ state.ended_early
        IN  /\ 0 <= state.contract.remaining_rounds
            /\ state.contract.remaining_rounds <= L
            /\ Negotiated(state) =>
                 /\ N <= L
                 /\ state.contract.remaining_rounds = L - N
            /\ (Negotiated(state) /\ N = L) =>
                 \A order_quantity \in OrderQuantities, D \in Demands :
                     LET r == place_order(state, order_quantity, D, DEFAULT_PARAMS)
                     IN  /\ r.resp.err = IF over THEN "game_over"
                                         ELSE "no_active_contract"
                         /\ r.state = state

\* C1 witness: the order after the last round of a negotiated contract has
\* just been refused as "no active contract"
C1_Witness ==
    \E sid \in DOMAIN SESSIONS :
        /\ last = [sid |-> sid, op |-> "place_order",
                   err |-> "no_active_contract", decision |-> ""]
        /\ Negotiated(SESSIONS[sid])
        /\ orders_on_contract[sid] = SESSIONS[sid].contract.length
        /\ SESSIONS[sid].contract.remaining_rounds = 0

\* C2: place_order fails with the game-over error whenever the session is
\* game over, also when there is no active contract; otherwise with the
\* no-active-contract error when remaining_rounds <= 0; in both failures the
\* result does not depend on a demand and the session is unchanged.
C2_OrderChecks ==
    \A sid \in DOMAIN SESSIONS :
        LET state == SESSIONS[sid]
            over == state.round_number > state.total_rounds \/ state.ended_early
        IN  \A order_quantity \in OrderQuantities, D \in Demands :
                LET r == place_order(state, order_quantity, D, DEFAULT_PARAMS)
                IN  /\ over =>
                         r = Failure(state, "place_order", "game_over",
                                     order_quantity)
                    /\ (~over /\ state.contract.remaining_rounds <= 0) =>
                         r = Failure(state, "place_order", "no_active_contract",
                                     order_quantity)
                    /\ (~over /\ state.contract.remaining_rounds > 0) =>
                         r.resp.err = "none"

\* C2 witness: an order has just been refused as game over in a session
\* that has no active contract either
C2_Witness ==
    \E sid \in DOMAIN SESSIONS :
        /\ last = [sid |-> sid, op |-> "place_order", err |-> "game_over",
                   decision |-> ""]
        /\ SESSIONS[sid].contract.remaining_rounds <= 0
        /\ SESSIONS[sid].round_number > SESSIONS[sid].total_rounds

\* the game-over condition: round_number > total_rounds or ended_early
Over(state) == state.round_number > state.total_rounds \/ state.ended_early

\* the results of every call of the six operations on a session, one per
\* request the call may carry
Calls(state) ==
    { place_order(state, order_quantity, D, DEFAULT_PARAMS) :
          order_quantity \in OrderQuantities, D \in Demands }
    \cup { negotiate(state, request, reply, Now, ai_provider, DEFAULT_PARAMS) :
               request \in Proposals, reply \in EvalReplies }
    \cup { negotiation_chat(state, message, reply, ai_provider) :
               message \in StudentMessages, reply \in ChatReplies }
    \cup { accept_counter(state, accept, Now) : accept \in BOOLEAN }
    \cup { end_game_early(state, Now), get_game_summary(state, Now) }

\* C3: every call of place_order, negotiate, negotiation_chat,
\* accept_counter, end_game_early or get_game_summary that ends in an error
\* leaves the session exactly as it was before the call.
C3_FailedCallsLeaveSession ==
    \A sid \in DOMAIN SESSIONS :
        \A r \in Calls(SESSIONS[sid]) :
            r.resp.err # "none" => r.state = SESSIONS[sid]

\* the fields C4 names: round number, contract, cumulative profits, running
\* totals, round summaries, transcript and draft
SameGame(a, b) ==
    /\ a.round_number = b.round_number
    /\ a.contract = b.contract
    /\ a.cumulative_buyer_profit = b.cumulative_buyer_profit
    /\ a.cumulative_supplier_profit = b.cumulative_supplier_profit
    /\ a.total_demand = b.total_demand
    /\ a.total_sales = b.total_sales
    /\ a.total_returns = b.total_returns
    /\ a.total_leftovers = b.total_leftovers
    /\ a.round_summaries = b.round_summaries
    /\ a.negotiation_chat_history = b.negotiation_chat_history
    /\ a.negotiation_draft_contract = b.negotiation_draft_contract

\* in a session that is game over, every place_order, negotiate,
\* negotiation_chat, accept_counter and end_game_early call fails and keeps
\* the fields of SameGame
RefusedWhenOver ==
    \A sid \in DOMAIN SESSIONS :
        Over(SESSIONS[sid]) =>
            \A r \in Calls(SESSIONS[sid]) :
                r.resp.op # "get_game_summary" =>
                    /\ r.resp.err # "none"
                    /\ SameGame(r.state, SESSIONS[sid])

\* a session that is game over is still game over after any step
StaysOver ==
    \A sid \in DOMAIN SESSIONS :
        Over(SESSIONS[sid]) => sid \in DOMAIN SESSIONS' /\ Over(SESSIONS'[sid])

\* C4: game over is terminal: a session that is game over stays game over
\* forever, and every later place_order, negotiate, negotiation_chat,
\* accept_counter and end_game_early call fails without changing the round
\* number, the contract, the cumulative profits, the running totals, the
\* round summaries, the transcript or the draft.
C4_GameOverTerminal == [](RefusedWhenOver) /\ [][StaysOver]_vars

\* C4 witness: a call other than get_game_summary has just been refused in
\* a session that was ended early with an open transcript and a draft
C4_Witness ==
    \E sid \in DOMAIN SESSIONS :
        /\ last.sid = sid
        /\ last.op \in {"place_order", "negotiate", "negotiation_chat",
                        "accept_counter", "end_game_early"}
        /\ last.err \in {"game_over", "already_over"}
        /\ SESSIONS[sid].ended_early
        /\ SESSIONS[sid].negotiation_chat_history # << >>
        /\ SESSIONS[sid].negotiation_draft_contract # NoContract

\* C5 (as stated): negotiate on a session whose contract has
\* remaining_rounds > 0 fails with the contract-already-active error before
\* anything is evaluated, and changes nothing in the session.
C5_AsStated ==
    \A sid \in DOMAIN SESSIONS :
        SESSIONS[sid].contract.remaining_rounds > 0 =>
            \A request \in Proposals, reply \in EvalReplies :
                negotiate(SESSIONS[sid], request, reply, Now, ai_provider,
                          DEFAULT_PARAMS)
                    = Failure(SESSIONS[sid], "negotiate",
                              "contract_already_active", request)

\* C5 (amended): negotiate on a session whose contract has
\* remaining_rounds > 0 fails before anything is evaluated and changes
\* nothing in the session; the error is contract-already-active while the
\* game is not over, and game-over once it is.
C5_ActiveContractRefusal ==
    \A sid \in DOMAIN SESSIONS :
        SESSIONS[sid].contract.remaining_rounds > 0 =>
            \A request \in Proposals, reply \in EvalReplies :
                negotiate(SESSIONS[sid], request, reply, Now, ai_provider,
                          DEFAULT_PARAMS)
                    = Failure(SESSIONS[sid], "negotiate",
                              IF Over(SESSIONS[sid]) THEN "game_over"
                              ELSE "contract_already_active",
                              request)

\* C5 witness: a proposal has just been refused as contract-already-active
\* in a session with an open transcript
C5_Witness ==
    \E sid \in DOMAIN SESSIONS :
        /\ last = [sid |-> sid, op |-> "negotiate",
                   err |-> "contract_already_active", decision |-> ""]
        /\ SESSIONS[sid].contract.remaining_rounds > 0
        /\ SESSIONS[sid].negotiation_chat_history # << >>

\* the contract a proposal asks for, in force for its whole length
ProposedContract(request) ==
    [wholesale_price |-> request.wholesale_price,
     buyback_price |-> request.buyback_price,
     cap_type |-> request.cap_type,
     cap_value |-> request.cap_value,
     length |-> request.length,
     remaining_rounds |-> request.length,
     contract_type |-> request.contract_type,
     revenue_share |-> request.revenue_share]

\* the records a call appended to negotiation_history
Appended(before, after) ==
    SubSeq(after.negotiation_history, Len(before.negotiation_history) + 1,
           Len(after.negotiation_history))

IsAcceptRecord(record) == record.final_decision = "accept"

\* C6: when the decision on an initial proposal is "accept", after negotiate
\* the session's contract is the proposal with remaining_rounds = length,
\* exactly one record with final_decision "accept" and final_contract = the
\* proposal has been appended to negotiation_history, and the transcript is
\* empty, there is no draft and no negotiation start time.
C6_AcceptInstallsContract ==
    \A sid \in DOMAIN SESSIONS :
        \A request \in Proposals, reply \in EvalReplies :
            LET state == SESSIONS[sid]
                r == negotiate(state, request, reply, Now, ai_provider,
                               DEFAULT_PARAMS)
                added == Appended(state, r.state)
                accepts == SelectSeq(added, IsAcceptRecord)
            IN  (r.resp.err = "none" /\ r.resp.decision = "accept") =>
                    /\ r.state.contract = ProposedContract(request)
                    /\ SubSeq(r.state.negotiation_history, 1,
                              Len(state.negotiation_history))
                           = state.negotiation_history
                    /\ Len(accepts) = 1
                    /\ accepts[1].final_contract = ProposedContract(request)
                    /\ added[Len(added)] = accepts[1]
                    /\ r.state.negotiation_chat_history = << >>
                    /\ r.state.negotiation_draft_contract = NoContract
                    /\ r.state.current_negotiation_start_time = NoTime

\* C6 witness: a proposal has just been accepted and is the active contract
C6_Witness ==
    \E sid \in DOMAIN SESSIONS :
        LET state == SESSIONS[sid]
            history == state.negotiation_history
        IN  /\ last = [sid |-> sid, op |-> "negotiate", err |-> "none",
                       decision |-> "accept"]
            /\ state.contract.remaining_rounds = 2
            /\ Len(history) = 2
            /\ history[1].final_decision = "None"
            /\ history[2].final_contract = state.contract

\* C7: when the decision on an initial proposal is "reject", after negotiate
\* the transcript is exactly one supplier turn carrying the explanation, the
\* contract is unchanged and not active, no record of this negotiation has
\* been appended to negotiation_history (only the record closing an earlier
\* unresolved negotiation, if one was open), and negotiation_chat is
\* accepted next.
C7_RejectOpensChat ==
    \A sid \in DOMAIN SESSIONS :
        \A request \in Proposals, reply \in EvalReplies :
            LET state == SESSIONS[sid]
                r == negotiate(state, request, reply, Now, ai_provider,
                               DEFAULT_PARAMS)
                added == Appended(state, r.state)
                explanation ==
                    supplier_evaluate_contract(ProposedContract(request),
                                               DEFAULT_PARAMS, ai_provider,
                                               reply).message
            IN  (r.resp.err = "none" /\ r.resp.decision = "reject") =>
                    /\ r.state.negotiation_chat_history
                           = << [role |-> "supplier", content |-> explanation] >>
                    /\ r.resp.message = explanation
                    /\ r.state.contract = state.contract
                    /\ r.state.contract.remaining_rounds <= 0
                    /\ SubSeq(r.state.negotiation_history, 1,
                              Len(state.negotiation_history))
                           = state.negotiation_history
                    /\ Len(added) = IF NegotiationOpen(state) THEN 1 ELSE 0
                    /\ \A i \in 1..Len(added) :
                           /\ added[i].final_decision = "None"
                           /\ added[i].final_contract = NoContract
                           /\ added[i].chat_messages
                                  = state.negotiation_chat_history
                    /\ \A message \in StudentMessages, answer \in ChatReplies :
                           negotiation_chat(r.state, message, answer,
                                            ai_provider).resp.err = "none"

\* C7 witness: a proposal has just been rejected; the transcript is the
\* supplier's explanation alone
C7_Witness ==
    \E sid \in DOMAIN SESSIONS :
        /\ last = [sid |-> sid, op |-> "negotiate", err |-> "none",
                   decision |-> "reject"]
        /\ SESSIONS[sid].negotiation_chat_history
               = << [role |-> "supplier", content |-> "Too low."] >>
        /\ SESSIONS[sid].contract.remaining_rounds = 0

\* every evaluation of an initial proposal decides "accept" or "reject" and
\* carries no counter contract
EvaluationNeverCounters ==
    \A request \in Proposals, reply \in EvalReplies, provider \in AiProviders,
       params \in {EconomicParams, AltEconomicParams} :
        LET eval == supplier_evaluate_contract(ProposedContract(request),
                                               params, provider, reply)
        IN  /\ eval.decision \in {"accept", "reject"}
            /\ eval.counter_contract = NoContract

\* C8 (as stated): supplier_evaluate_contract decides "accept" or "reject"
\* with no counter contract for every proposal and every provider reply,
\* and after any negotiate call the session has no draft contract.
C8_AsStated ==
    /\ EvaluationNeverCounters
    /\ \A sid \in DOMAIN SESSIONS :
           \A request \in Proposals, reply \in EvalReplies :
               negotiate(SESSIONS[sid], request, reply, Now, ai_provider,
                         DEFAULT_PARAMS).state.negotiation_draft_contract
                   = NoContract

\* C8 (amended): supplier_evaluate_contract decides "accept" or "reject"
\* with no counter contract for every proposal and every provider reply;
\* after a negotiate call that is not refused as game-over or
\* contract-already-active the session has no draft contract, and a call
\* refused for one of these two reasons leaves the draft as it was.
C8_NoCounterOffer ==
    /\ EvaluationNeverCounters
    /\ \A sid \in DOMAIN SESSIONS :
           \A request \in Proposals, reply \in EvalReplies :
               LET state == SESSIONS[sid]
                   r == negotiate(state, request, reply, Now, ai_provider,
                                  DEFAULT_PARAMS)
               IN  /\ r.resp.contract = NoContract
                   /\ r.resp.decision \in {"", "accept", "reject"}
                   /\ r.state.negotiation_draft_contract =
                          IF r.resp.err \in {"game_over", "contract_already_active"}
                          THEN state.negotiation_draft_contract
                          ELSE NoContract

\* C8 witness: a proposal has just been evaluated in a session whose earlier
\* negotiation was closed unresolved; the session has no draft
C8_Witness ==
    \E sid \in DOMAIN SESSIONS :
        LET history == SESSIONS[sid].negotiation_history
        IN  /\ last = [sid |-> sid, op |-> "negotiate", err |-> "none",
                       decision |-> "reject"]
            /\ Len(history) > 0
            /\ history[Len(history)].final_decision = "None"
            /\ Len(history[Len(history)].chat_messages) > 1
            /\ SESSIONS[sid].negotiation_draft_contract = NoContract

\* C9: an initial proposal with buyback_price >= wholesale_price is rejected
\* by supplier_evaluate_contract whatever the provider is and answers; two
\* negotiate calls that differ only in the provider and its reply end the
\* same way, never with "accept", and the contract stays as it was.
C9_BuybackNotBelowWholesale ==
    \A request \in Proposals :
        request.buyback_price >= request.wholesale_price =>
            /\ \A reply \in EvalReplies, provider \in AiProviders,
                  params \in {EconomicParams, AltEconomicParams} :
                   supplier_evaluate_contract(ProposedContract(request), params,
                                              provider, reply).decision = "reject"
            /\ \A sid \in DOMAIN SESSIONS :
                   LET state == SESSIONS[sid]
                       base == negotiate(state, request,
                                         [kind |-> "raise", decision |-> "",
                                          message |-> ""],
                                         Now, "none", DEFAULT_PARAMS)
                   IN  /\ base.resp.decision \in {"", "reject"}
                       /\ base.resp.err = "none" => base.resp.decision = "reject"
                       /\ base.state.contract = state.contract
                       /\ \A reply \in EvalReplies, provider \in AiProviders :
                              negotiate(state, request, reply, Now, provider,
                                        DEFAULT_PARAMS) = base

\* C9 witness: a proposal with buyback_price >= wholesale_price has just been
\* rejected with a provider configured
C9_Witness ==
    \E sid \in DOMAIN SESSIONS :
        /\ ai_provider = "openai"
        /\ last = [sid |-> sid, op |-> "negotiate", err |-> "none",
                   decision |-> "reject"]
        /\ SESSIONS[sid].negotiation_chat_history
               = << [role |-> "supplier",
                     content |-> "I cannot accept a buyback price that is greater than or equal to the wholesale price."] >>
        /\ SESSIONS[sid].initial_contract_type = "hybrid"

C11_DraftKeepsProposedType ==
    \A sid \in DOMAIN SESSIONS :
        LET state == SESSIONS[sid]
        IN  proposed_type[sid] # "None" =>
                /\ state.negotiation_draft_contract # NoContract =>
                       state.negotiation_draft_contract.contract_type
                           = proposed_type[sid]
                /\ \A message \in StudentMessages, reply \in ChatReplies :
                       LET r == negotiation_chat(state, message, reply, ai_provider)
                       IN  /\ r.resp.contract # NoContract =>
                                  r.resp.contract.contract_type = proposed_type[sid]
                           /\ r.state.negotiation_draft_contract # NoContract =>
                                  r.state.negotiation_draft_contract.contract_type
                                      = proposed_type[sid]

\* C11 witness: in a negotiation opened by a rejected hybrid proposal,
\* negotiation_chat has just produced a draft from a reply that names
\* revenue_sharing; the draft is hybrid
C11_Witness ==
    \E sid \in DOMAIN SESSIONS :
        /\ last = [sid |-> sid, op |-> "negotiation_chat", err |-> "none",
                   decision |-> ""]
        /\ proposed_type[sid] = "hybrid"
        /\ SESSIONS[sid].current_negotiation_start_time # NoTime
        /\ Len(SESSIONS[sid].negotiation_chat_history) = 3
        /\ SESSIONS[sid].negotiation_draft_contract # NoContract
        /\ SESSIONS[sid].negotiation_draft_contract.contract_type = "hybrid"

\* what C12 says accept_counter(accept=true) does to a session with a draft:
\* the acceptance entry first, then one "accept" record with the full
\* transcript and the draft, the draft as contract with remaining_rounds =
\* length, and the open-negotiation state cleared
DraftAccepted(state, r) ==
    LET draft == state.negotiation_draft_contract
        transcript == Append(state.negotiation_chat_history,
                             [role |-> "student",
                              content |-> "I accept the counteroffer."])
    IN  /\ r.resp.err = "none"
        /\ r.state.negotiation_history
               = Append(state.negotiation_history,
                        [chat_messages |-> transcript,
                         final_decision |-> "accept",
                         final_contract |-> draft,
                         start_time |-> state.current_negotiation_start_time,
                         end_time |-> Now])
        /\ r.state.contract = [draft EXCEPT !.remaining_rounds = draft.length]
        /\ r.state.negotiation_chat_history = << >>
        /\ r.state.negotiation_draft_contract = NoContract
        /\ r.state.current_negotiation_start_time = NoTime

\* C12 (as stated): accept_counter(accept=true) on a session with a draft
\* appends the acceptance entry, appends one "accept" record with the full
\* transcript and the draft as final_contract, makes the draft the contract
\* with remaining_rounds = length and clears the open-negotiation state.
C12_AsStated ==
    \A sid \in DOMAIN SESSIONS :
        SESSIONS[sid].negotiation_draft_contract # NoContract =>
            DraftAccepted(SESSIONS[sid], accept_counter(SESSIONS[sid], TRUE, Now))

\* C12 (amended): on a session with a draft that is not game over,
\* accept_counter(accept=true) does all of the above; on one that is game
\* over it fails with the game-over error and changes nothing.
C12_AcceptCounterAccepts ==
    \A sid \in DOMAIN SESSIONS :
        LET state == SESSIONS[sid]
            r == accept_counter(state, TRUE, Now)
        IN  state.negotiation_draft_contract # NoContract =>
                IF Over(state)
                THEN r = Failure(state, "accept_counter", "game_over", TRUE)
                ELSE DraftAccepted(state, r)

\* C12 witness: a draft has just been accepted; the last record ends with
\* the acceptance entry and its contract is the session's contract
C12_Witness ==
    \E sid \in DOMAIN SESSIONS :
        LET state == SESSIONS[sid]
            history == state.negotiation_history
            record == history[Len(history)]
        IN  /\ last = [sid |-> sid, op |-> "accept_counter", err |-> "none",
                       decision |-> "accept"]
            /\ Len(history) > 0
            /\ Len(record.chat_messages) = 3
            /\ record.chat_messages[3].content = "I accept the counteroffer."
            /\ record.final_contract = state.contract
            /\ state.contract.remaining_rounds = state.contract.length

\* C13 (as stated): accept_counter(accept=true) on a session without a
\* draft fails with the no-draft error and leaves the session unchanged.
C13_AsStated ==
    \A sid \in DOMAIN SESSIONS :
        SESSIONS[sid].negotiation_draft_contract = NoContract =>
            accept_counter(SESSIONS[sid], TRUE, Now)
                = Failure(SESSIONS[sid], "accept_counter", "no_counteroffer", TRUE)

\* C13 (amended): accept_counter(accept=true) on a session without a draft
\* fails and leaves the session unchanged; the error is the no-draft error
\* while the game is not over and the game-over error once it is.
C13_AcceptWithoutDraft ==
    \A sid \in DOMAIN SESSIONS :
        SESSIONS[sid].negotiation_draft_contract = NoContract =>
            accept_counter(SESSIONS[sid], TRUE, Now)
                = Failure(SESSIONS[sid], "accept_counter",
                          IF Over(SESSIONS[sid]) THEN "game_over"
                          ELSE "no_counteroffer",
                          TRUE)

\* C13 witness: an acceptance has just been refused for want of a draft in
\* a session with an open transcript
C13_Witness ==
    \E sid \in DOMAIN SESSIONS :
        /\ last = [sid |-> sid, op |-> "accept_counter",
                   err |-> "no_counteroffer", decision |-> ""]
        /\ SESSIONS[sid].negotiation_draft_contract = NoContract
        /\ SESSIONS[sid].negotiation_chat_history # << >>

\* what C14 says accept_counter(accept=false) does to a session with a
\* draft: the draft is gone, one student entry is added, nothing is closed,
\* and negotiation_chat continues the transcript
DraftRejected(state, r) ==
    LET before == state.negotiation_chat_history
        after == r.state.negotiation_chat_history
    IN  /\ r.resp.err = "none"
        /\ r.state.negotiation_draft_contract = NoContract
        /\ Len(after) = Len(before) + 1
        /\ SubSeq(after, 1, Len(before)) = before
        /\ after[Len(after)].role = "student"
        /\ after[Len(after)].content
               = "I've rejected the previous counteroffer. Let's continue discussing terms."
        /\ r.state = [state EXCEPT !.negotiation_chat_history = after,
                                   !.negotiation_draft_contract = NoContract]
        /\ \A message \in StudentMessages, reply \in ChatReplies :
               LET c == negotiation_chat(r.state, message, reply, ai_provider)
               IN  /\ c.resp.err = "none"
                   /\ Len(c.state.negotiation_chat_history) = Len(after) + 2
                   /\ SubSeq(c.state.negotiation_chat_history, 1, Len(after))
                          = after
                   /\ c.state.negotiation_history = state.negotiation_history
                   /\ c.state.current_negotiation_start_time
                          = state.current_negotiation_start_time

\* C14 (as stated): accept_counter(accept=false) on a session with a draft
\* discards the draft, appends exactly one student entry recording the
\* rejection, leaves negotiation_history, the contract and the start time
\* unchanged, and negotiation_chat continues the same transcript.
C14_AsStated ==
    \A sid \in DOMAIN SESSIONS :
        SESSIONS[sid].negotiation_draft_contract # NoContract =>
            DraftRejected(SESSIONS[sid], accept_counter(SESSIONS[sid], FALSE, Now))

\* C14 (amended): on a session with a draft that is not game over,
\* accept_counter(accept=false) does all of the above; on one that is game
\* over it fails with the game-over error and changes nothing.
C14_AcceptCounterRejects ==
    \A sid \in DOMAIN SESSIONS :
        LET state == SESSIONS[sid]
            r == accept_counter(state, FALSE, Now)
        IN  state.negotiation_draft_contract # NoContract =>
                IF Over(state)
                THEN r = Failure(state, "accept_counter", "game_over", FALSE)
                ELSE DraftRejected(state, r)

\* C14 witness: a draft has just been rejected; the transcript ends with the
\* rejection entry and the negotiation is still open
C14_Witness ==
    \E sid \in DOMAIN SESSIONS :
        LET chat == SESSIONS[sid].negotiation_chat_history
        IN  /\ last = [sid |-> sid, op |-> "accept_counter", err |-> "none",
                       decision |-> "reject"]
            /\ Len(chat) = 3
            /\ chat[3].role = "student"
            /\ chat[2].role = "supplier"
            /\ SESSIONS[sid].negotiation_draft_contract = NoContract

\* what C15 says negotiate does to a session with an open negotiation: the
\* open negotiation is appended as an abandoned record with its full
\* transcript before any record of the new attempt, and the new attempt
\* starts from an empty transcript (at most its own rejection) and no draft
AbandonedFirst(state, r) ==
    LET old == state.negotiation_history
        new == r.state.negotiation_history
        abandoned == [chat_messages |-> state.negotiation_chat_history,
                      final_decision |-> "None",
                      final_contract |-> NoContract,
                      start_time |-> NoTime,
                      end_time |-> Now]
    IN  /\ Len(new) \in {Len(old) + 1, Len(old) + 2}
        /\ SubSeq(new, 1, Len(old)) = old
        /\ new[Len(old) + 1] = abandoned
        /\ Len(new) = Len(old) + 2 =>
               /\ r.resp.decision = "accept"
               /\ new[Len(new)].final_decision = "accept"
               /\ new[Len(new)].chat_messages = << >>
        /\ r.state.negotiation_draft_contract = NoContract
        /\ r.state.negotiation_chat_history
               = IF r.resp.decision = "reject"
                 THEN << [role |-> "supplier", content |-> r.resp.message] >>
                 ELSE << >>

\* C15 (as stated): negotiate on a session with an open negotiation
\* (non-empty transcript or a draft) first appends it to
\* negotiation_history as an abandoned record (final_decision null, full
\* transcript) and then opens the new one with an empty transcript and no
\* draft, so the abandoned record precedes any record of the new attempt.
C15_AsStated ==
    \A sid \in DOMAIN SESSIONS :
        NegotiationOpen(SESSIONS[sid]) =>
            \A request \in Proposals, reply \in EvalReplies :
                AbandonedFirst(SESSIONS[sid],
                               negotiate(SESSIONS[sid], request, reply, Now,
                                         ai_provider, DEFAULT_PARAMS))

\* C15 (amended): negotiate on a session with an open negotiation that is
\* neither game over nor under an active contract does the above, also when
\* the proposal is then refused for violating the negotiation config; a
\* call refused as game-over or contract-already-active appends nothing and
\* leaves the open negotiation as it is.
C15_AbandonedBeforeNew ==
    \A sid \in DOMAIN SESSIONS :
        LET state == SESSIONS[sid]
        IN  NegotiationOpen(state) =>
                \A request \in Proposals, reply \in EvalReplies :
                    LET r == negotiate(state, request, reply, Now, ai_provider,
                                       DEFAULT_PARAMS)
                    IN  IF Over(state) \/ state.contract.remaining_rounds > 0
                        THEN /\ r.resp.err \in {"game_over",
                                                "contract_already_active"}
                             /\ r.state = state
                        ELSE AbandonedFirst(state, r)

\* C15 witness: a proposal has just been rejected in a session whose earlier
\* negotiation, three entries long, is now the abandoned record
C15_Witness ==
    \E sid \in DOMAIN SESSIONS :
        LET history == SESSIONS[sid].negotiation_history
        IN  /\ last = [sid |-> sid, op |-> "negotiate", err |-> "none",
                       decision |-> "reject"]
            /\ Len(history) = 1
            /\ history[1].final_decision = "None"
            /\ Len(history[1].chat_messages) = 3
            /\ Len(SESSIONS[sid].negotiation_chat_history) = 1

\* the record C16 describes for the open negotiation of a session
ClosedRecord(state, now) ==
    [chat_messages |-> state.negotiation_chat_history,
     final_decision |-> IF state.negotiation_draft_contract # NoContract
                        THEN "ongoing" ELSE "rejected",
     final_contract |-> IF state.negotiation_draft_contract # NoContract
                        THEN to_contract_data(state.negotiation_draft_contract)
                        ELSE NoContract,
     start_time |-> state.current_negotiation_start_time,
     end_time |-> now]

\* record is ClosedRecord(state, t) for some end time t
ClosesNegotiation(record, state) ==
    record = ClosedRecord(state, record.end_time)

\* C16: when a game ends while a negotiation is open, by end_game_early or
\* naturally (get_game_summary after the last round), the open negotiation
\* is in negotiation_history afterwards as the last record, with
\* final_decision "ongoing" if a draft exists and "rejected" otherwise, the
\* draft as final_contract when present, the full transcript and an end
\* time.
C16_OpenNegotiationClosedAtEnd ==
    \A sid \in DOMAIN SESSIONS :
        LET state == SESSIONS[sid]
            history == state.negotiation_history
        IN  NegotiationOpen(state) =>
              /\ ~Over(state) =>
                    LET r == end_game_early(state, Now)
                    IN  /\ r.resp.err = "none"
                        /\ r.state.ended_early
                        /\ r.state.negotiation_history
                               = Append(history, ClosedRecord(state, Now))
              /\ (Over(state) /\ ~state.ended_early) =>
                    LET r == get_game_summary(state, Now)
                        h == r.state.negotiation_history
                    IN  /\ r.resp.err = "none"
                        /\ h # << >>
                        /\ ClosesNegotiation(h[Len(h)], state)
                        /\ \/ h = Append(history, ClosedRecord(state, Now))
                           \/ h = history

\* C16 witness: the summary of a game that ended after its last round has
\* just recorded the open negotiation, which has a draft, as ongoing
C16_Witness ==
    \E sid \in DOMAIN SESSIONS :
        LET state == SESSIONS[sid]
            history == state.negotiation_history
        IN  /\ last = [sid |-> sid, op |-> "get_game_summary", err |-> "none",
                       decision |-> ""]
            /\ ~state.ended_early
            /\ state.round_number > state.total_rounds
            /\ state.round_summaries # << >>
            /\ state.negotiation_draft_contract # NoContract
            /\ history # << >>
            /\ history[Len(history)].final_decision = "ongoing"
            /\ history[Len(history)].final_contract
                   = to_contract_data(state.negotiation_draft_contract)
            /\ history[Len(history)].end_time = clock

\* the session after get_game_summary is called twice more, at later instants
SummarisedTwice(state, now) ==
    get_game_summary(get_game_summary(state, now).state, now + 1).state

\* C17: closing the open negotiation at game end is idempotent: whatever
\* sequence of end_game_early and get_game_summary calls follows (repeated
\* get_game_summary calls included), the open negotiation is added to
\* negotiation_history at most once.
C17_ClosedAtMostOnce ==
    \A sid \in DOMAIN SESSIONS :
        LET state == SESSIONS[sid]
            ended == end_game_early(state, Now).state
        IN  NegotiationOpen(state) =>
              /\ Over(state) =>
                    Len(SummarisedTwice(state, Now).negotiation_history)
                        <= Len(state.negotiation_history) + 1
              /\ ~Over(state) =>
                    /\ Len(SummarisedTwice(ended, Now + 1).negotiation_history)
                           <= Len(state.negotiation_history) + 1
                    /\ end_game_early(ended, Now + 1).state = ended

RECURSIVE SumSeq(_)
SumSeq(seq) == IF seq = << >> THEN 0 ELSE Head(seq) + SumSeq(Tail(seq))

\* seq is the first Len(seq) elements of longer
IsPrefix(seq, longer) ==
    Len(seq) <= Len(longer) /\ SubSeq(longer, 1, Len(seq)) = seq

\* the seed histories a session can have been started with
SeedHistories == {files.history : files \in ConfigFiles}

\* the bookkeeping of one session
RoundBookkeeping(state) ==
    LET rs == state.round_summaries
        n == Len(rs)
        hist == state.historical_demands
        Column(F(_)) == [k \in 1..n |-> F(rs[k])]
        realized(s) == s.realized_demand
        ordered(s) == s.order_quantity
        buyer(s) == s.buyer_profit
        supplier(s) == s.supplier_profit
    IN  /\ state.round_number = 1 + n
        /\ \A k \in 1..n : rs[k].round_index = k
        /\ Len(hist) > n
        /\ SubSeq(hist, 1, Len(hist) - n) \in SeedHistories
        /\ SubSeq(hist, Len(hist) - n + 1, Len(hist)) = Column(realized)
        /\ state.cumulative_buyer_profit = SumSeq(Column(buyer))
        /\ state.cumulative_supplier_profit = SumSeq(Column(supplier))
        /\ state.total_demand = SumSeq(Column(realized))
        /\ state.total_sales + state.total_returns + state.total_leftovers
               = SumSeq(Column(ordered))

\* a step starts a session on the seed history in force and never shortens
\* or rewrites the history or the summaries of a running session
HistoryGrows ==
    \A sid \in DOMAIN SESSIONS' :
        IF sid \in DOMAIN SESSIONS
        THEN /\ IsPrefix(SESSIONS[sid].historical_demands,
                         SESSIONS'[sid].historical_demands)
             /\ IsPrefix(SESSIONS[sid].round_summaries,
                         SESSIONS'[sid].round_summaries)
        ELSE /\ SESSIONS'[sid].historical_demands = game_DEFAULT_HISTORY
             /\ SESSIONS'[sid].round_summaries = << >>

\* C18: in every session round_number is 1 + the number of round summaries,
\* the k-th summary has round_index k, historical_demands is the seed
\* history followed by the realized demands in round order (never shortened,
\* never empty), the cumulative profits are the sums of the summaries'
\* profits, total_demand is the sum of the realized demands, and
\* total_sales + total_returns + total_leftovers is the sum of the order
\* quantities.
C18_RoundBookkeeping ==
    /\ [](\A sid \in DOMAIN SESSIONS : RoundBookkeeping(SESSIONS[sid]))
    /\ [][HistoryGrows]_vars

\* C18 witness: two rounds have been played, the second just now
C18_Witness ==
    \E sid \in DOMAIN SESSIONS :
        /\ last = [sid |-> sid, op |-> "place_order", err |-> "none",
                   decision |-> ""]
        /\ Len(SESSIONS[sid].round_summaries) = 2
        /\ Len(SESSIONS[sid].historical_demands) = 3
        /\ SESSIONS[sid].total_demand > 0

\* a simulate_round call has returned
RoundDone == round_result # NoRound /\ round_result.output # NoOutput

\* C19: for every round result, whatever the order quantity Q and the demand
\* D: sales = min(Q, D), unsold = max(Q - D, 0), sales + unsold = Q and
\* returns + leftovers = unsold; under revenue_sharing and under the
\* plain-wholesale fallback returns = 0 and leftovers = unsold.
C19_RoundQuantities ==
    RoundDone =>
        LET o == round_result.output
            Q == round_result.round_input.order_quantity
            D == round_result.round_input.realized_demand
        IN  /\ o.order_quantity = Q
            /\ o.realized_demand = D
            /\ o.sales = (IF Q <= D THEN Q ELSE D)
            /\ o.unsold = (IF Q - D >= 0 THEN Q - D ELSE 0)
            /\ o.sales + o.unsold = Q
            /\ o.returns + o.leftovers = o.unsold
            /\ round_result.contract.contract_type
                   \notin {"buyback", "hybrid", ""} =>
                   o.returns = 0 /\ o.leftovers = o.unsold

\* C19 witness: a revenue-sharing round with more ordered than demanded has
\* been simulated
C19_Witness ==
    /\ RoundDone
    /\ round_result.contract.contract_type = "revenue_sharing"
    /\ round_result.round_input.order_quantity = 100
    /\ round_result.round_input.realized_demand = 70
    /\ round_result.output.leftovers = 30

\* floor(cap) of a cap given in hundredths
FloorCap(contract, Q) ==
    IF contract.cap_type = "fraction"
    THEN (contract.cap_value * Q) \div 100
    ELSE contract.cap_value \div 100

\* the worked example of C20: p = 50, vB = 3, c = 12, vS = 12, c_ret = 1,
\* h = 0.5, w = 10, b = 4, fraction cap 0.3, Q = 100, D = 70
IsBuybackExample ==
    /\ round_result.params = EconomicParams
    /\ round_result.contract.wholesale_price = 100
    /\ round_result.contract.buyback_price = 40
    /\ round_result.contract.cap_type = "fraction"
    /\ round_result.contract.cap_value = 30
    /\ round_result.round_input = [order_quantity |-> 100, realized_demand |-> 70]

\* C20: for a buyback contract simulate_round computes
\* returns = min(unsold, floor(cap)), cap being cap_value * Q for a fraction
\* cap and cap_value for a unit cap,
\* buyer profit = p*sales + vB*leftovers + b*returns - w*Q - c_ret*returns,
\* supplier profit = w*Q + vS*returns - c*Q - b*returns - h*returns;
\* the worked example gives sales 70, unsold 30, returns 30, leftovers 0,
\* buyer profit 2590 and supplier profit 25.
C20_BuybackRound ==
    (RoundDone /\ round_result.contract.contract_type = "buyback") =>
        LET o == round_result.output
            contract == round_result.contract
            params == round_result.params
            Q == round_result.round_input.order_quantity
            cap == FloorCap(contract, Q)
        IN  /\ o.returns = (IF o.unsold <= cap THEN o.unsold ELSE cap)
            /\ o.buyer_profit =
                   Money(params.retail_price, o.sales)
                   + Money(params.buyer_salvage_value, o.leftovers)
                   + Money(contract.buyback_price, o.returns)
                   - Money(contract.wholesale_price, Q)
                   - Money(params.return_shipping_buyer, o.returns)
            /\ o.supplier_profit =
                   Money(contract.wholesale_price, Q)
                   + Money(params.supplier_salvage_value, o.returns)
                   - Money(params.supplier_cost, Q)
                   - Money(contract.buyback_price, o.returns)
                   - Money(params.return_handling_supplier, o.returns)
            /\ IsBuybackExample =>
                   /\ o.sales = 70 /\ o.unsold = 30
                   /\ o.returns = 30 /\ o.leftovers = 0
                   /\ o.buyer_profit = 2590 * 1000
                   /\ o.supplier_profit = 25 * 1000

\* the worked example of C21: p = 50, c = 12, w = 10, share 0.2, Q = 50,
\* D = 80
IsRevenueSharingExample ==
    /\ round_result.params = EconomicParams
    /\ round_result.contract.wholesale_price = 100
    /\ round_result.contract.revenue_share = 20
    /\ round_result.round_input = [order_quantity |-> 50, realized_demand |-> 80]

\* C21: for a revenue_sharing contract simulate_round uses share =
\* revenue_share clamped to [0, 1] (above 1 acts as 1, below 0 as 0), no
\* returns, buyer profit = p*sales + vB*leftovers - w*Q - share*p*sales and
\* supplier profit = w*Q + share*p*sales - c*Q; the worked example gives
\* sales 50, unsold 0, returns 0, buyer profit 1500 and supplier profit 400.
C21_RevenueSharingRound ==
    (RoundDone /\ round_result.contract.contract_type = "revenue_sharing") =>
        LET o == round_result.output
            contract == round_result.contract
            params == round_result.params
            Q == round_result.round_input.order_quantity
            share == IF contract.revenue_share > 100 THEN 100
                     ELSE IF contract.revenue_share < 0 THEN 0
                     ELSE contract.revenue_share
            shared == (share * Money(params.retail_price, o.sales)) \div 100
        IN  /\ o.returns = 0
            /\ o.leftovers = o.unsold
            /\ o.revenue_share_payment_buyer = shared
            /\ o.revenue_share_revenue_supplier = shared
            /\ o.buyer_profit =
                   Money(params.retail_price, o.sales)
                   + Money(params.buyer_salvage_value, o.leftovers)
                   - Money(contract.wholesale_price, Q)
                   - shared
            /\ o.supplier_profit =
                   Money(contract.wholesale_price, Q) + shared
                   - Money(params.supplier_cost, Q)
            /\ IsRevenueSharingExample =>
                   /\ o.sales = 50 /\ o.unsold = 0 /\ o.returns = 0
                   /\ o.buyer_profit = 1500 * 1000
                   /\ o.supplier_profit = 400 * 1000

\* C21 witness: the worked example has been simulated
C21_Witness ==
    /\ RoundDone
    /\ round_result.contract.contract_type = "revenue_sharing"
    /\ IsRevenueSharingExample
    /\ round_result.output.revenue_share_payment_buyer = 500 * 1000

\* the RoundOutput of the simulated round had its contract been of type ct
SameRoundUnder(ct) ==
    simulate_round([round_result.contract EXCEPT !.contract_type = ct],
                   round_result.round_input, round_result.params).output

SameQuantities(o, other) ==
    /\ o.sales = other.sales
    /\ o.unsold = other.unsold
    /\ o.returns = other.returns
    /\ o.leftovers = other.leftovers

SameProfits(o, other) ==
    /\ o.buyer_profit = other.buyer_profit
    /\ o.supplier_profit = other.supplier_profit

\* C22: a hybrid contract is the union of the two mechanisms: for the same
\* Q, D, prices and cap, a hybrid round with revenue_share = 0 has the
\* quantities and profits of the buyback round, a hybrid round with a cap of
\* 0 has the quantities and profits of the revenue_sharing round, and in
\* general hybrid buyer profit = buyback buyer profit - share*p*sales and
\* hybrid supplier profit = buyback supplier profit + share*p*sales (share
\* being the clamped revenue_share).
C22_HybridIsUnion ==
    (RoundDone /\ round_result.contract.contract_type = "hybrid") =>
        LET o == round_result.output
            contract == round_result.contract
            buyback == SameRoundUnder("buyback")
            sharing == SameRoundUnder("revenue_sharing")
            share == IF contract.revenue_share > 100 THEN 100
                     ELSE IF contract.revenue_share < 0 THEN 0
                     ELSE contract.revenue_share
            shared == (share * Money(round_result.params.retail_price, o.sales))
                          \div 100
        IN  /\ SameQuantities(o, buyback)
            /\ o.buyer_profit = buyback.buyer_profit - shared
            /\ o.supplier_profit = buyback.supplier_profit + shared
            /\ contract.revenue_share = 0 => SameProfits(o, buyback)
            /\ contract.cap_value = 0 =>
                   SameQuantities(o, sharing) /\ SameProfits(o, sharing)

\* C22 witness: a hybrid round with a share, returns and leftovers has been
\* simulated
C22_Witness ==
    /\ RoundDone
    /\ round_result.contract.contract_type = "hybrid"
    /\ round_result.contract.revenue_share = 20
    /\ round_result.output.returns > 0
    /\ round_result.output.leftovers > 0
    /\ round_result.output.revenue_share_payment_buyer > 0

EvalDone == evaluation # NoEvaluation /\ evaluation.result # NoResult

EvaluationFails(provider, reply) ==
    \/ provider \notin {"openai", "deepseek"}
    \/ reply.kind \in {"raise", "empty"}
    \/ Lower(reply.decision) \notin {"accept", "reject"}
    \/ reply.message = ""

\* the same for the chat: no provider, an exception, a text that is not
\* JSON, or a JSON object without a response text
ChatFails(provider, reply) ==
    \/ provider \notin {"openai", "deepseek"}
    \/ reply.kind # "json"
    \/ Strip(reply.response) = ""

\* the evaluation made without a provider (spec section 4.5): the structural
\* rejection, then the fallback logic
FallbackEvaluation(request, params) ==
    IF request.buyback_price >= request.wholesale_price
    THEN [decision |-> "reject",
          message |-> "I cannot accept a buyback price that is greater than or equal to the wholesale price."]
    ELSE LET e == evaluate_proposal_simple_logic(
                      Contract(request.wholesale_price, request.buyback_price,
                               request.cap_type, request.cap_value,
                               request.length, request.contract_type,
                               request.revenue_share), params)
         IN  [decision |-> e.decision, message |-> e.message]

\* the supplier messages that do not come from the provider
StaticMessages ==
    { "I'm open to discussing contract terms. What would you like to adjust?",
      "I'm having trouble processing that. Could you rephrase your proposal?" }
    \cup {fallback_responses[i] : i \in 1..Len(fallback_responses)}

\* C25: a failure of the external provider is never surfaced to the session:
\* when the provider is not configured, raises, or returns empty or
\* unparseable output, negotiate completes with exactly the decision and
\* message of the fallback evaluation (it does what it does without a
\* provider), and negotiation_chat completes without error, appending the
\* student message and a static supplier message to the transcript and
\* leaving an existing draft contract as it was.
C25_ProviderFailureHidden ==
    \A sid \in DOMAIN SESSIONS :
        LET state == SESSIONS[sid]
        IN  /\ \A request \in Proposals, reply \in EvalReplies :
                 EvaluationFails(ai_provider, reply) =>
                    LET r == negotiate(state, request, reply, Now, ai_provider,
                                       DEFAULT_PARAMS)
                        unprovided == negotiate(state, request, reply, Now,
                                                "none", DEFAULT_PARAMS)
                        fallback == FallbackEvaluation(request, DEFAULT_PARAMS)
                    IN  /\ r = unprovided
                        /\ r.resp.err # "invalid_supplier_decision"
                        /\ r.resp.err = "none" =>
                               /\ r.resp.decision = fallback.decision
                               /\ r.resp.message = fallback.message
            /\ ~Over(state) =>
                 \A message \in StudentMessages, reply \in ChatReplies :
                    ChatFails(ai_provider, reply) =>
                       LET r == negotiation_chat(state, message, reply,
                                                 ai_provider)
                           old == state.negotiation_chat_history
                           new == r.state.negotiation_chat_history
                       IN  /\ r.resp.err = "none"
                           /\ Len(new) = Len(old) + 2
                           /\ SubSeq(new, 1, Len(old)) = old
                           /\ new[Len(old) + 1]
                                  = [role |-> "student", content |-> message]
                           /\ new[Len(new)].role = "supplier"
                           /\ new[Len(new)].content \in StaticMessages
                           /\ r.state.negotiation_draft_contract
                                  = state.negotiation_draft_contract
                           /\ r.state
                                  = [state EXCEPT !.negotiation_chat_history = new]

\* C25 witness: with a provider configured, a proposal has just been
\* accepted, which the provider's only answering reply would have rejected:
\* the provider raised and the fallback evaluation decided
C25_Witness ==
    \E sid \in DOMAIN SESSIONS :
        /\ ai_provider = "openai"
        /\ \A reply \in NegotiateReplies :
               reply.kind = "text" => Lower(reply.decision) = "reject"
        /\ last = [sid |-> sid, op |-> "negotiate", err |-> "none",
                   decision |-> "accept"]
        /\ SESSIONS[sid].contract.remaining_rounds > 0

\* a step that reloads the defaults changes no session
ReloadLeavesSessions ==
    (\/ last'.op = "reload_defaults"
     \/ DEFAULT_PARAMS' # DEFAULT_PARAMS
     \/ DEFAULT_HISTORY' # DEFAULT_HISTORY) => SESSIONS' = SESSIONS

\* the figures of round summary s recomputed under params
Recomputed(s, remaining_rounds, params) ==
    simulate_round([Contract(s.wholesale_price, s.buyback_price, s.cap_type,
                             s.cap_value, s.contract_length, s.contract_type,
                             s.revenue_share)
                      EXCEPT !.remaining_rounds = remaining_rounds],
                   [order_quantity |-> s.order_quantity,
                    realized_demand |-> s.realized_demand], params).output

FiguresOf(s, o) ==
    /\ s.buyer_revenue = o.buyer_revenue
    /\ s.buyer_cost = o.buyer_cost
    /\ s.buyer_profit = o.buyer_profit
    /\ s.supplier_revenue = o.supplier_revenue
    /\ s.supplier_cost = o.supplier_cost
    /\ s.supplier_profit = o.supplier_profit

\* a step that simulates a round computes it with the parameters in force
\* at that step, and keeps the summaries of the earlier rounds as they were
RoundUsesCurrentParams ==
    \A sid \in DOMAIN SESSIONS :
        LET old == SESSIONS[sid].round_summaries
            new == SESSIONS'[sid].round_summaries
        IN  /\ IsPrefix(old, new)
            /\ Len(new) > Len(old) =>
                 LET s == new[Len(new)]
                     o == Recomputed(s, SESSIONS[sid].contract.remaining_rounds,
                                     DEFAULT_PARAMS)
                 IN  /\ Len(new) = Len(old) + 1
                     /\ DEFAULT_PARAMS' = DEFAULT_PARAMS
                     /\ FiguresOf(s, o)
                     /\ SESSIONS'[sid].cumulative_buyer_profit
                            = SESSIONS[sid].cumulative_buyer_profit + o.buyer_profit
                     /\ SESSIONS'[sid].cumulative_supplier_profit
                            = SESSIONS[sid].cumulative_supplier_profit
                              + o.supplier_profit

\* C26: reloading the economic parameters is not retroactive: reload_defaults
\* changes no session (round summaries, cumulative profits, running totals,
\* contract and demand history stay as they were), rounds simulated before
\* the reload keep the figures computed with the old parameters, and every
\* round simulated after the reload is computed with the new parameters.
C26_ReloadNotRetroactive ==
    [][ReloadLeavesSessions /\ RoundUsesCurrentParams]_vars

\* C26 witness: the second round has just been simulated with parameters
\* installed after the first round, whose summary still shows figures the
\* parameters now in force would not give
C26_Witness ==
    \E sid \in DOMAIN SESSIONS :
        LET rs == SESSIONS[sid].round_summaries
        IN  /\ last = [sid |-> sid, op |-> "place_order", err |-> "none",
                       decision |-> ""]
            /\ Len(rs) = 2
            /\ round_result.params = DEFAULT_PARAMS
            /\ FiguresOf(rs[2], round_result.output)
            /\ ~FiguresOf(rs[1], Recomputed(rs[1], 1, DEFAULT_PARAMS))

\* C27: after update_config / reload_defaults has installed a new demand
\* history, every game started afterwards is seeded with it: the
\* historical_demands of a new session is the history get_current_history
\* returns at that time.
C27_NewGamesUseReloadedHistory ==
    [][\A sid \in DOMAIN SESSIONS' \ DOMAIN SESSIONS :
          SESSIONS'[sid].historical_demands = DEFAULT_HISTORY]_vars

Elements(seq) == {seq[i] : i \in 1..Len(seq)}

\* method names generate_demand does not know
UnknownMethods == {"poisson", "", "Bootstrap", "uniform"}

\* on the history of every session: a bootstrap draw exists and is an
\* element of the history; an unknown method returns no value
BootstrapDrawsFromHistory ==
    \A sid \in DOMAIN SESSIONS :
        LET history == SESSIONS[sid].historical_demands
        IN  /\ history # << >>
            /\ generate_demand(history, "bootstrap") # {}
            /\ generate_demand(history, "bootstrap") \subseteq Elements(history)
            /\ \A method \in UnknownMethods :
                   generate_demand(history, method) = {}

\* the demand realized in a round of a bootstrap session is an element of
\* the session's history before the round
RealizedDemandFromHistory ==
    \A sid \in DOMAIN SESSIONS :
        LET old == SESSIONS[sid].historical_demands
            new == SESSIONS'[sid].historical_demands
        IN  (SESSIONS[sid].method = "bootstrap" /\ Len(new) > Len(old)) =>
                /\ Len(new) = Len(old) + 1
                /\ new[Len(new)] \in Elements(old)

\* C28: generate_demand with method 'bootstrap' returns, for every non-empty
\* history, an element of that history (so a session's bootstrap demand is
\* always one of its seed values or an earlier realized demand); with a
\* method other than 'bootstrap' or 'normal' it fails and returns no value.
C28_BootstrapDemand ==
    [](BootstrapDrawsFromHistory) /\ [][RealizedDemandFromHistory]_vars

\* C28 witness: a bootstrap session has just realized a demand in its second
\* round, drawn from a history that already held a realized demand
C28_Witness ==
    \E sid \in DOMAIN SESSIONS :
        LET history == SESSIONS[sid].historical_demands
        IN  /\ last = [sid |-> sid, op |-> "place_order", err |-> "none",
                       decision |-> ""]
            /\ SESSIONS[sid].method = "bootstrap"
            /\ Len(history) = 3
            /\ history[3] \in Elements(SubSeq(history, 1, 2))

\* the session is as start_game creates it
FreshSession(state) ==
    /\ state.round_number = 1
    /\ state.cumulative_buyer_profit = 0
    /\ state.cumulative_supplier_profit = 0
    /\ state.round_summaries = << >>
    /\ state.negotiation_chat_history = << >>
    /\ state.negotiation_draft_contract = NoContract
    /\ state.negotiation_history = << >>
    /\ state.ended_early = FALSE
    /\ state.contract.remaining_rounds = 0
    /\ state.contract.length = 0
    /\ state.total_demand = 0
    /\ state.total_sales = 0
    /\ state.total_returns = 0
    /\ state.total_leftovers = 0
    /\ state.method \in {"bootstrap", "normal"}

\* a start_game step stores a fresh session or, refused, stores nothing
StartsFresh ==
    /\ \A sid \in DOMAIN SESSIONS' \ DOMAIN SESSIONS :
           /\ last' = [sid |-> sid, op |-> "start_game", err |-> "none",
                       decision |-> ""]
           /\ FreshSession(SESSIONS'[sid])
    /\ (last'.op = "start_game" /\ last'.err # "none") => SESSIONS' = SESSIONS

\* no negotiation of the session has been accepted
NothingAccepted(state) ==
    \A i \in 1..Len(state.negotiation_history) :
        state.negotiation_history[i].final_decision # "accept"

ValidMethods ==
    \A sid \in DOMAIN SESSIONS : SESSIONS[sid].method \in {"bootstrap", "normal"}

\* C29 (as stated): start_game creates a session in the initial state (round
\* 1, zero profits, no summaries, empty transcript, no draft, empty
\* negotiation_history, ended_early false, placeholder contract with
\* remaining_rounds = 0), so place_order before any accepted negotiation
\* fails with no active contract; start_game with an unknown demand method
\* fails and stores no session, so every stored session has a valid method.
C29_AsStated ==
    /\ [][StartsFresh]_vars
    /\ [](ValidMethods)
    /\ [](\A sid \in DOMAIN SESSIONS :
            NothingAccepted(SESSIONS[sid]) =>
                \A Q \in OrderQuantities, D \in Demands :
                    LET r == place_order(SESSIONS[sid], Q, D, DEFAULT_PARAMS)
                    IN  /\ r.resp.err = "no_active_contract"
                        /\ r.state = SESSIONS[sid])

\* C29 (amended): the same, except that place_order before any accepted
\* negotiation fails with game over when the game is already over (started
\* with no rounds to play, or ended early) and with no active contract
\* otherwise; either way the session is unchanged.
C29_StartGameInitialState ==
    /\ [][StartsFresh]_vars
    /\ [](ValidMethods)
    /\ [](\A sid \in DOMAIN SESSIONS :
            NothingAccepted(SESSIONS[sid]) =>
                \A Q \in OrderQuantities, D \in Demands :
                    LET r == place_order(SESSIONS[sid], Q, D, DEFAULT_PARAMS)
                    IN  /\ r.resp.err = IF Over(SESSIONS[sid]) THEN "game_over"
                                        ELSE "no_active_contract"
                        /\ r.state = SESSIONS[sid])

\* C29 witness: an order has just been refused for want of a contract in a
\* session that is still as start_game created it
C29_Witness ==
    \E sid \in DOMAIN SESSIONS :
        /\ last = [sid |-> sid, op |-> "place_order",
                   err |-> "no_active_contract", decision |-> ""]
        /\ FreshSession(SESSIONS[sid])
        /\ SESSIONS[sid].total_rounds > 0

SessionOperations ==
    {"place_order", "negotiate", "negotiation_chat", "accept_counter",
     "end_game_early", "get_game_summary"}

\* a step that is an operation on one session leaves the other sessions and
\* the seed demand history as they were
OthersUntouched ==
    last'.op \in SessionOperations =>
        /\ DOMAIN SESSIONS' = DOMAIN SESSIONS
        /\ \A sid \in DOMAIN SESSIONS \ {last'.sid} :
               SESSIONS'[sid] = SESSIONS[sid]
        /\ DEFAULT_HISTORY' = DEFAULT_HISTORY
        /\ game_DEFAULT_HISTORY' = game_DEFAULT_HISTORY

\* a session's history is the seed followed by its own realized demands
OwnDemandsOnly ==
    \A sid \in DOMAIN SESSIONS :
        LET state == SESSIONS[sid]
            n == Len(state.round_summaries)
        IN  /\ Len(state.historical_demands) = Len(game_DEFAULT_HISTORY) + n
            /\ IsPrefix(game_DEFAULT_HISTORY, state.historical_demands)

\* C30: sessions are isolated: an operation on one session (place_order,
\* negotiate, negotiation_chat, accept_counter, end_game_early,
\* get_game_summary) leaves every other session's state and the process-wide
\* seed demand history unchanged; the demands appended to one session's
\* historical_demands never appear in another session's history or in the
\* seed.
C30_SessionsIsolated ==
    [](OwnDemandsOnly) /\ [][OthersUntouched]_vars

\* C30 witness: of two sessions one has just played a round and the other
\* has played none
C30_Witness ==
    /\ DOMAIN SESSIONS = TwoSessionIds
    /\ last.op = "place_order" /\ last.err = "none"
    /\ \E sid \in DOMAIN SESSIONS \ {last.sid} :
           /\ SESSIONS[sid].round_summaries = << >>
           /\ SESSIONS[sid].historical_demands = game_DEFAULT_HISTORY
           /\ Len(SESSIONS[last.sid].historical_demands)
                  > Len(SESSIONS[sid].historical_demands)

\* C31: a round observes a consistent parameter snapshot: with
\* reload_defaults running concurrently with simulate_round at any
\* interleaving point, the six economic parameters used in the round's
\* result come from one single version (all old or all new), never a mix.
C31_ConsistentSnapshot ==
    in_flight.round.pc = "done" =>
        \E version \in {in_flight.reload.was, in_flight.reload.files.params} :
            /\ in_flight.round.used = version
            /\ in_flight.round.output =
                   simulate_round(in_flight.round.contract,
                                  in_flight.round.round_input, version).output

\* C31 witness: the parameters were replaced between the round's buyer side
\* and its supplier side, and the round finished on the old version
C31_Witness ==
    /\ in_flight.round.pc = "done"
    /\ in_flight.reload.during = "supplier"
    /\ in_flight.reload.was # in_flight.reload.files.params
    /\ in_flight.round.used = in_flight.reload.was
    /\ DEFAULT_PARAMS = in_flight.reload.files.params

\* the contract has been counted below zero, or more rounds have been played
\* than the game has
Overrun(state) ==
    \/ state.contract.remaining_rounds < 0
    \/ Len(state.round_summaries) > state.total_rounds

OutsideTheChat(state) ==
    [state EXCEPT !.negotiation_chat_history = << >>,
                  !.negotiation_draft_contract = NoContract]

\* C33: each successful negotiation_chat call appends exactly two transcript
\* entries in order, the student's message and then the supplier's reply; a
\* draft contract carried by the reply becomes the session's draft, and a
\* reply without one leaves the session's draft as it was; the call changes
\* neither the session's contract, nor the round counter and totals, nor
\* negotiation_history.
C33_ChatAppendsTwo ==
    \A sid \in DOMAIN SESSIONS :
        \A message \in StudentMessages, reply \in ChatRequestReplies :
            LET state == SESSIONS[sid]
                r == negotiation_chat(state, message, reply, ai_provider)
            IN  r.resp.err = "none" =>
                    /\ r.state.negotiation_chat_history =
                           state.negotiation_chat_history \o
                           << [role |-> "student", content |-> message],
                              [role |-> "supplier", content |-> r.resp.message] >>
                    /\ r.resp.contract # NoContract =>
                           /\ r.state.negotiation_draft_contract # NoContract
                           /\ to_contract_data(r.state.negotiation_draft_contract)
                                  = r.resp.contract
                    /\ r.resp.contract = NoContract =>
                           r.state.negotiation_draft_contract =
                               state.negotiation_draft_contract
                    /\ OutsideTheChat(r.state) = OutsideTheChat(state)

\* C33 witness: a chat call has just answered without a draft while the
\* session holds the draft of an earlier answer
C33_Witness ==
    \E sid \in DOMAIN SESSIONS :
        /\ last = [sid |-> sid, op |-> "negotiation_chat", err |-> "none",
                   decision |-> ""]
        /\ Len(SESSIONS[sid].negotiation_chat_history) >= 3
        /\ SESSIONS[sid].negotiation_draft_contract # NoContract
        /\ \E message \in StudentMessages, reply \in ChatRequestReplies :
               LET r == negotiation_chat(SESSIONS[sid], message, reply,
                                         ai_provider)
               IN  r.resp.err = "none" /\ r.resp.contract = NoContract

\* in a step, the negotiation_history of every session keeps its records
\* and only grows at the end
RecordsKept ==
    \A sid \in DOMAIN SESSIONS :
        /\ sid \in DOMAIN SESSIONS'
        /\ IsPrefix(SESSIONS[sid].negotiation_history,
                    SESSIONS'[sid].negotiation_history)

\* C34: negotiation_history is append-only: across every operation the
\* previous list is a prefix of the new list, and a record once appended
\* never changes, even when the open transcript it was copied from is later
\* extended or cleared.
C34_HistoryAppendOnly == [][RecordsKept]_vars

\* C34 witness: a second record has been appended after the transcript the
\* first record was copied from was cleared and a new one written
C34_Witness ==
    \E sid \in DOMAIN SESSIONS :
        LET history == SESSIONS[sid].negotiation_history
        IN  /\ Len(history) = 2
            /\ history[1].chat_messages # << >>
            /\ history[2].chat_messages # << >>
            /\ history[2].chat_messages # history[1].chat_messages
            /\ ~IsPrefix(history[1].chat_messages, history[2].chat_messages)

\* the contract terms a round summary records
TermsOfSummary(rs) ==
    [wholesale_price |-> rs.wholesale_price, buyback_price |-> rs.buyback_price,
     cap_type |-> rs.cap_type, cap_value |-> rs.cap_value,
     length |-> rs.contract_length, contract_type |-> rs.contract_type,
     revenue_share |-> rs.revenue_share]

TermsOfContract(contract) ==
    [wholesale_price |-> contract.wholesale_price,
     buyback_price |-> contract.buyback_price,
     cap_type |-> contract.cap_type, cap_value |-> contract.cap_value,
     length |-> contract.length, contract_type |-> contract.contract_type,
     revenue_share |-> contract.revenue_share]

\* a successful order records the contract it was simulated under, counted
\* down by the round; every step keeps the summaries already recorded
SummarySnapshot ==
    \A sid \in DOMAIN SESSIONS :
        LET before == SESSIONS[sid].round_summaries
            after == SESSIONS'[sid].round_summaries
        IN  /\ sid \in DOMAIN SESSIONS'
            /\ IsPrefix(before, after)
            /\ (last' = [sid |-> sid, op |-> "place_order", err |-> "none",
                         decision |-> ""]) =>
                   /\ Len(after) = Len(before) + 1
                   /\ TermsOfSummary(after[Len(after)])
                          = TermsOfContract(SESSIONS[sid].contract)
                   /\ after[Len(after)].remaining_rounds
                          = SESSIONS[sid].contract.remaining_rounds - 1
                   /\ after[Len(after)].remaining_rounds
                          = SESSIONS[sid].contract.length
                              - orders_on_contract'[sid]

\* C35: each RoundSummary is a snapshot: it records the wholesale price,
\* buyback price, cap type and value, length, contract type and revenue share
\* of the contract under which its round was simulated, together with that
\* contract's remaining_rounds after the round's decrement (length minus the
\* number of rounds played under it); summaries already recorded are not
\* changed by later rounds, by negotiation, or by the contract being replaced.
C35_SummaryIsSnapshot == [][SummarySnapshot]_vars

\* C35 witness: the summary of the first round still shows the contract of
\* that round after a different contract has been accepted and played
C35_Witness ==
    \E sid \in DOMAIN SESSIONS :
        LET rs == SESSIONS[sid].round_summaries
        IN  /\ Len(rs) = 2
            /\ last = [sid |-> sid, op |-> "place_order", err |-> "none",
                       decision |-> ""]
            /\ TermsOfSummary(rs[1]) # TermsOfContract(SESSIONS[sid].contract)
            /\ TermsOfSummary(rs[2]) = TermsOfContract(SESSIONS[sid].contract)
            /\ rs[1].remaining_rounds = 0

\* a step changes a session's contract only by an accept made while the
\* contract has no round left, and never raises remaining_rounds above 0
ActiveContractKept ==
    \A sid \in DOMAIN SESSIONS :
        LET before == SESSIONS[sid].contract
            after == SESSIONS'[sid].contract
        IN  /\ sid \in DOMAIN SESSIONS'
            /\ (\/ TermsOfContract(after) # TermsOfContract(before)
                \/ after.remaining_rounds > before.remaining_rounds) =>
                   /\ before.remaining_rounds = 0
                   /\ last'.sid = sid
                   /\ last'.op \in {"negotiate", "accept_counter"}
                   /\ last'.err = "none"
            /\ before.remaining_rounds > 0 =>
                   after.remaining_rounds <= before.remaining_rounds

\* C36: an active contract is never replaced or reset: in every sequence of
\* operations the session's contract and its terms change only through an
\* accept that happens while the current contract has remaining_rounds = 0,
\* so remaining_rounds never increases while it is above 0 (no negotiate,
\* negotiation_chat or accept_counter can install a new contract during an
\* active one).
C36_ActiveContractNeverReplaced == [][ActiveContractKept]_vars

\* an accept has just installed the session's contract, and the record it
\* closed stores that contract
AcceptRecordsActiveContract ==
    \A sid \in DOMAIN SESSIONS :
        (/\ last.sid = sid
         /\ last.op \in {"negotiate", "accept_counter"}
         /\ last.err = "none"
         /\ last.decision = "accept") =>
            LET history == SESSIONS[sid].negotiation_history
                record == history[Len(history)]
                active == SESSIONS[sid].contract
            IN  /\ history # << >>
                /\ record.final_decision = "accept"
                /\ record.final_contract = to_contract_data(active)
                /\ record.final_contract.remaining_rounds = active.length

\* C37: every negotiation record with final_decision 'accept' stores as
\* final_contract exactly the contract that became active at that moment:
\* same terms, and remaining_rounds equal to length, both for
\* initial-proposal accepts and for accepted chat drafts (including drafts
\* whose length was clamped into the configured range when created).
C37_AcceptRecordIsActiveContract ==
    /\ AcceptRecordsActiveContract
    /\ \A sid \in DOMAIN SESSIONS :
         \A message \in StudentMessages, reply \in ChatReplies :
            LET chat == negotiation_chat(SESSIONS[sid], message, reply,
                                         ai_provider)
                accepted == accept_counter(chat.state, TRUE, clock + 1)
                history == accepted.state.negotiation_history
                record == history[Len(history)]
                active == accepted.state.contract
            IN  (chat.resp.err = "none" /\ accepted.resp.err = "none") =>
                    /\ record.final_decision = "accept"
                    /\ record.final_contract = to_contract_data(active)
                    /\ record.final_contract.remaining_rounds = active.length

\* C38: for every round simulated through place_order, for any integer
\* order_quantity the request accepts and any contract that can become
\* active, the physical flows are in range: 0 <= sales <= order_quantity,
\* 0 <= returns <= unsold and 0 <= leftovers <= unsold, so the running
\* totals total_sales, total_returns and total_leftovers never decrease.
C38_FlowsInRange ==
    \A sid \in DOMAIN SESSIONS :
        LET state == SESSIONS[sid]
        IN  \A order_quantity \in OrderQuantities :
              \A D \in generate_demand(state.historical_demands, state.method) :
                LET r == place_order(state, order_quantity, D, DEFAULT_PARAMS)
                    out == r.resp.round_output
                    unsold == out.order_quantity - out.sales
                IN  r.resp.err = "none" =>
                        /\ 0 <= out.sales /\ out.sales <= order_quantity
                        /\ 0 <= out.returns /\ out.returns <= unsold
                        /\ 0 <= out.leftovers /\ out.leftovers <= unsold
                        /\ r.state.total_sales >= state.total_sales
                        /\ r.state.total_returns >= state.total_returns
                        /\ r.state.total_leftovers >= state.total_leftovers

\* what the two parties earn together in a round, by the flows alone
JointProfit(out, params) ==
    Money(params.retail_price, out.sales)
    + Money(params.buyer_salvage_value, out.leftovers)
    + Money(params.supplier_salvage_value, out.returns)
    - Money(params.supplier_cost, out.order_quantity)
    - Money(params.return_shipping_buyer, out.returns)
    - Money(params.return_handling_supplier, out.returns)

\* the same contract at other prices and another revenue share
Repriced(contract) ==
    { [contract EXCEPT !.wholesale_price = w, !.buyback_price = b,
                       !.revenue_share = share] :
        w \in {100, 170}, b \in {0, 40, 90}, share \in {-10, 0, 20, 150} }

RoundsWithinGame ==
    \A sid \in DOMAIN SESSIONS :
        LET state == SESSIONS[sid]
            T == state.total_rounds
        IN  T >= 1 =>
                /\ state.round_number <= T + 1
                /\ Len(state.round_summaries) <= T
                /\ state.round_number > T <=> Len(state.round_summaries) = T

\* the round counter moves only by one, and only on a successful order
CountsSuccessfulOrders ==
    \A sid \in DOMAIN SESSIONS :
        /\ sid \in DOMAIN SESSIONS'
        /\ SESSIONS'[sid].round_number # SESSIONS[sid].round_number =>
               /\ SESSIONS'[sid].round_number = SESSIONS[sid].round_number + 1
               /\ last' = [sid |-> sid, op |-> "place_order", err |-> "none",
                           decision |-> ""]
        /\ (last' = [sid |-> sid, op |-> "place_order", err |-> "none",
                     decision |-> ""]) =>
               SESSIONS'[sid].round_number = SESSIONS[sid].round_number + 1

\* every game that is played on comes to its end
GameEnds ==
    \A sid \in SessionIds :
        (sid \in DOMAIN SESSIONS)
            ~> (sid \in DOMAIN SESSIONS /\ is_game_over(SESSIONS[sid]))

\* C40: a game of total_rounds = T >= 1 ends after exactly T successful
\* place_order calls: round_number only changes by +1 on a successful order,
\* round_number <= T + 1 in every reachable state, at most T round summaries
\* are ever recorded, and if orders keep being placed whenever a contract is
\* active and a contract is accepted whenever none is active (fairness),
\* the session eventually reaches game over.
C40_GameEndsAfterItsRounds ==
    /\ [](RoundsWithinGame)
    /\ [][CountsSuccessfulOrders]_vars
    /\ GameEnds

\* C40 witness: a two-round game is over by its rounds, two orders after
\* its start, without having been ended early
C40_Witness ==
    \E sid \in DOMAIN SESSIONS :
        /\ SESSIONS[sid].total_rounds = 2
        /\ Len(SESSIONS[sid].round_summaries) = 2
        /\ SESSIONS[sid].round_number = 3
        /\ ~SESSIONS[sid].ended_early
        /\ is_game_over(SESSIONS[sid])
        /\ last = [sid |-> sid, op |-> "place_order", err |-> "none",
                   decision |-> ""]



====
